---- MODULE Spec2Model ----
(***************************************************************************)
(* A model of lsp-tui: the server-side Session store with its handlers     *)
(* (src/src/core/session.rs, src/src/core/document.rs, src/src/handler.rs, *)
(* src/src/server.rs) and the editing client that emits versioned change   *)
(* notifications (src/src/tui/app.rs, src/src/tui/mod.rs).                 *)
(***************************************************************************)
EXTENDS Integers, Sequences, FiniteSets, TLC

(***************************************************************************)
(* Bounds and input sets                                                   *)
(***************************************************************************)

\* Document identifiers a peer may name in a request.
Uris == {"file://temp", "file://test"}

\* Initial texts a did_open may carry.
OpenTexts == {<< >>, <<"a">>}

\* The value of a field that holds nothing.
None == "None"

VARIABLES
    debug_assertions,   \* the build: TRUE when debug_assert! is compiled in
    client,             \* Session.client is Some(..)
    document_texts,     \* Session.document_texts   : uri -> text
    document_parsers,   \* Session.document_parsers : uri -> parser
    document_trees,     \* Session.document_trees   : uri -> tree
    alive,              \* the serve task of the server has neither panicked nor blocked
    inflight,           \* the handlers suspended at an await, with the guards they hold
    last,               \* the last completed call and its result
    encoding,           \* App.capabilities.encoding
    trigger_characters, \* App.capabilities.trigger_characters
    size,               \* App.width, App.height and the size of App.docs[doc_index]
    menu,               \* a CompletionMenuState: list_state.selected and completions
    doc,                \* App.docs[doc_index]: lines, cursor, char_ptr
    document_version,   \* App.document_version
    show_completions,   \* App.show_completions
    completions,        \* App.completions
    app,                \* the update loop: "new", "running", "quit", "panicked"
    text_area,          \* mod.rs: the TextArea and the last of its edits
    text_document_sync, \* mod.rs: capabilities.text_document_sync
    keys,               \* number of key events handled
    key_event,          \* the last of them
    tasks,              \* the commands spawned and not finished: what each has left to send
    lsp_task,           \* the task of run_lsp_task: "none", "spawned", "receiving", "panicked"
    message_rx,         \* the channel from the run loop to the task of run_lsp_task
    wire,               \* the messages sent to the server and not yet handled by it
    received,           \* the messages the server has handled, in order
    awaiting,           \* the completion requests sent and not yet answered
    answered,           \* the last completion request answered, with its answer
    emitted,            \* the notifications created so far, in creation order
    ropes,              \* the local text when each of them was created
    reference           \* the emitted change descriptors replayed from empty

serverVars == <<debug_assertions, client, document_texts, document_parsers,
                document_trees, alive, inflight, last>>

appVars == <<encoding, trigger_characters, size, menu, doc, text_area, text_document_sync, document_version,
             show_completions, completions, app, keys, key_event>>

syncVars == <<tasks, lsp_task, message_rx, wire, received, awaiting, answered>>

historyVars == <<emitted, ropes, reference>>

vars == <<serverVars, appVars, syncVars, historyVars>>

(***************************************************************************)
(* Finite maps                                                             *)
(***************************************************************************)

EmptyMap == [u \in {} |-> None]

\* DashMap::insert: the entry for k is created or overwritten.
MapInsert(m, k, v) == [u \in (DOMAIN m) \cup {k} |-> IF u = k THEN v ELSE m[u]]

\* DashMap::remove: the entry for k is removed when there is one.
MapRemove(m, k) == [u \in (DOMAIN m) \ {k} |-> m[u]]

(***************************************************************************)
(* Results and errors                                                      *)
(***************************************************************************)

NoError == [type |-> None, kind |-> None, uri |-> None]

\* error::Error::SessionResourceNotFound { kind, uri }
SessionResourceNotFound(kind, uri) ==
    [type |-> "SessionResourceNotFound", kind |-> kind, uri |-> uri]

\* error::Error::ClientNotInitialized
ClientNotInitialized ==
    [type |-> "ClientNotInitialized", kind |-> None, uri |-> None]

Ok(v) == [kind |-> "Ok", value |-> v, error |-> NoError]
Err(e) == [kind |-> "Err", value |-> None, error |-> e]
\* A failed debug_assert!, an out-of-bounds index or an unwrap of an Err.
Panic == [kind |-> "Panic", value |-> None, error |-> NoError]

Unit == "()"

\* Option<T>: Some(v) or Nothing.
Some(v) == <<v>>
Nothing == << >>
IsSome(o) == o # << >>

(***************************************************************************)
(* Session (src/src/core/session.rs)                                       *)
(***************************************************************************)

\* The three maps of a Session as one value.
Store(texts, parsers, trees) ==
    [texts |-> texts, parsers |-> parsers, trees |-> trees]

CurrentStore == Store(document_texts, document_parsers, document_trees)

\* What an operation leaves behind: the store and the operation's result.
Outcome(store, res) == [store |-> store, res |-> res]

\* The tree tree-sitter builds for a text: it is the parse of that text.
TreeOf(text) == [of |-> text]

\* The parser of a document.
NewParser == "javascript"

\* A client that reports the absence of the channel as an absent resource.
Session_client_not_found ==
    IF client THEN Ok("client") ELSE Err(SessionResourceNotFound("Document", None))

\* Session::client: the Option is inspected, nothing is awaited.
Session_client == IF client THEN Ok("client") ELSE Err(ClientNotInitialized)

get_text(s, uri) ==
    IF uri \in DOMAIN s.texts THEN Ok(s.texts[uri])
    ELSE Err(SessionResourceNotFound("Document", uri))

get_mut_text(s, uri) ==
    IF uri \in DOMAIN s.texts THEN Ok(s.texts[uri])
    ELSE Err(SessionResourceNotFound("Document", uri))

\* get_mut_parser reporting the kind of get_mut_text.
get_mut_parser_kind_document(s, uri) ==
    IF uri \in DOMAIN s.parsers THEN Ok(s.parsers[uri])
    ELSE Err(SessionResourceNotFound("Document", uri))

get_mut_parser(s, uri) ==
    IF uri \in DOMAIN s.parsers THEN Ok(s.parsers[uri])
    ELSE Err(SessionResourceNotFound("Parser", uri))

get_tree(s, uri) ==
    IF uri \in DOMAIN s.trees THEN Ok(s.trees[uri])
    ELSE Err(SessionResourceNotFound("Tree", uri))

get_mut_tree(s, uri) ==
    IF uri \in DOMAIN s.trees THEN Ok(s.trees[uri])
    ELSE Err(SessionResourceNotFound("Tree", uri))

\* Session::insert_document. Each insert overwrites; in a debug build the
\* debug_assert! after it panics when there was an entry, and the inserts
\* after it do not happen.
insert_document(s, uri, document) ==
    LET s1 == [s EXCEPT !.texts = MapInsert(s.texts, uri, document.content)]
        s2 == [s1 EXCEPT !.parsers = MapInsert(s.parsers, uri, document.parser)]
        s3 == [s2 EXCEPT !.trees = MapInsert(s.trees, uri, document.tree)]
    IN  IF debug_assertions /\ uri \in DOMAIN s.texts THEN Outcome(s1, Panic)
        ELSE IF debug_assertions /\ uri \in DOMAIN s.parsers THEN Outcome(s2, Panic)
        ELSE IF debug_assertions /\ uri \in DOMAIN s.trees THEN Outcome(s3, Panic)
        ELSE Outcome(s3, Ok(Unit))

\* remove_document without the removal from document_trees.
remove_document_leaves_tree(s, uri) ==
    LET s1 == [s EXCEPT !.texts = MapRemove(s.texts, uri)]
        s2 == [s1 EXCEPT !.parsers = MapRemove(s.parsers, uri)]
    IN  IF debug_assertions /\ uri \notin DOMAIN s.texts THEN Outcome(s1, Panic)
        ELSE IF debug_assertions /\ uri \notin DOMAIN s.parsers THEN Outcome(s2, Panic)
        ELSE Outcome(s2, Ok(Unit))

\* Session::remove_document. Each remove returns the entry (dropped here); in a
\* debug build the debug_assert! after it panics when there was none.
remove_document(s, uri) ==
    LET s1 == [s EXCEPT !.texts = MapRemove(s.texts, uri)]
        s2 == [s1 EXCEPT !.parsers = MapRemove(s.parsers, uri)]
        s3 == [s2 EXCEPT !.trees = MapRemove(s.trees, uri)]
    IN  IF debug_assertions /\ uri \notin DOMAIN s.texts THEN Outcome(s1, Panic)
        ELSE IF debug_assertions /\ uri \notin DOMAIN s.parsers THEN Outcome(s2, Panic)
        ELSE IF debug_assertions /\ uri \notin DOMAIN s.trees THEN Outcome(s3, Panic)
        ELSE Outcome(s3, Ok(Unit))

(***************************************************************************)
(* Document (src/src/core/document.rs)                                     *)
(***************************************************************************)

\* Document::open: a parse from scratch. `parsed` is whether tree-sitter
\* returned a tree; without one there is no Document.
Document_open(text, parsed) ==
    IF parsed
    THEN Ok(Some([content |-> text, parser |-> NewParser, tree |-> TreeOf(text)]))
    ELSE Ok(Nothing)

\* A change that takes the old tree out of the store before it parses, and
\* so leaves no tree when the parse gives none.
Document_change_takes_tree(s, uri, content, parsed) ==
    IF get_mut_parser(s, uri).kind # "Ok"
    THEN Outcome(s, get_mut_parser(s, uri))
    ELSE IF ~parsed
    THEN Outcome([s EXCEPT !.trees = MapRemove(s.trees, uri)], Ok(Nothing))
    ELSE Outcome([s EXCEPT !.trees = MapInsert(s.trees, uri, TreeOf(content))],
                 Ok(Some(TreeOf(content))))

\* Document::change: parse `content` with the stored parser and, when there
\* is a tree, store it as the document's tree.
Document_change(s, uri, content, parsed) ==
    IF get_mut_parser(s, uri).kind # "Ok"
    THEN Outcome(s, get_mut_parser(s, uri))
    ELSE IF ~parsed THEN Outcome(s, Ok(Nothing))
    ELSE IF get_mut_tree(s, uri).kind # "Ok"
    THEN Outcome(s, get_mut_tree(s, uri))
    ELSE Outcome([s EXCEPT !.trees = MapInsert(s.trees, uri, TreeOf(content))],
                 Ok(Some(TreeOf(content))))

(***************************************************************************)
(* Handlers (src/src/handler.rs)                                           *)
(***************************************************************************)

handler_did_open(s, uri, text, parsed) ==
    LET document == Document_open(text, parsed)
    IN  IF IsSome(document.value)
        THEN insert_document(s, uri, document.value[1])
        ELSE Outcome(s, Ok(Unit))

\* A did_change that takes the text of the last of its content changes.
handler_did_change_last(s, uri, content_changes, parsed) ==
    IF get_mut_text(s, uri).kind # "Ok"
    THEN Outcome(s, get_mut_text(s, uri))
    ELSE IF content_changes = << >> THEN Outcome(s, Panic)
    ELSE Outcome([s EXCEPT
                     !.texts = MapInsert(s.texts, uri,
                                         content_changes[Len(content_changes)].text),
                     !.trees = IF parsed /\ uri \in DOMAIN s.trees
                               THEN MapInsert(s.trees, uri,
                                        TreeOf(content_changes[Len(content_changes)].text))
                               ELSE s.trees],
                 Ok(Unit))

\* The text is replaced by content_changes[0].text, whatever its range; the
\* index panics on an empty list before anything is written.
handler_did_change(s, uri, content_changes, parsed) ==
    IF get_mut_text(s, uri).kind # "Ok"
    THEN Outcome(s, get_mut_text(s, uri))
    ELSE IF content_changes = << >> THEN Outcome(s, Panic)
    ELSE LET s1 == [s EXCEPT !.texts =
                        MapInsert(s.texts, uri, content_changes[1].text)]
             changed == Document_change(s1, uri, s1.texts[uri], parsed)
         IN  IF changed.res.kind = "Ok"
             THEN Outcome(changed.store, Ok(Unit))
             ELSE changed

\* A close that asks for the client before it removes anything.
handler_did_close_client_first(s, uri) ==
    IF Session_client.kind # "Ok" THEN Outcome(s, Session_client)
    ELSE IF remove_document(s, uri).res.kind # "Ok" THEN remove_document(s, uri)
    ELSE Outcome(remove_document(s, uri).store, Ok(Unit))

\* The entries are removed first; the client is asked for afterwards.
handler_did_close(s, uri) ==
    LET removed == remove_document(s, uri)
    IN  IF removed.res.kind # "Ok" THEN removed
        ELSE IF Session_client.kind # "Ok"
        THEN Outcome(removed.store, Session_client)
        ELSE Outcome(removed.store, Ok(Unit))

\* The symbols are computed from the stored text and the stored tree.
handler_document_symbol(s, uri) ==
    IF get_text(s, uri).kind # "Ok" THEN Outcome(s, get_text(s, uri))
    ELSE IF get_tree(s, uri).kind # "Ok" THEN Outcome(s, get_tree(s, uri))
    ELSE Outcome(s, Ok([text |-> s.texts[uri], tree |-> s.trees[uri]]))

(***************************************************************************)
(* Server (src/src/server.rs)                                              *)
(***************************************************************************)

\* Lists of content changes a did_change may carry.
ChangeLists ==
    { << >>,
      << [range |-> None, text |-> <<"b">>] >>,
      << [range |-> [start |-> [line |-> 0, character |-> 0],
                     end |-> [line |-> 0, character |-> 0]],
          text |-> <<"a">>],
         [range |-> None, text |-> <<"b">>] >> }

NoCall == [op |-> None, uri |-> None, arg |-> None, res |-> Ok(Unit),
           pre |-> Store(EmptyMap, EmptyMap, EmptyMap)]

Call(op, uri, arg, res) ==
    [op |-> op, uri |-> uri, arg |-> arg, res |-> res, pre |-> CurrentStore]

SetStore(s) ==
    /\ document_texts' = s.texts
    /\ document_parsers' = s.parsers
    /\ document_trees' = s.trees

\* Result::unwrap in a notification handler: anything but Ok panics, and the
\* panic ends the task that serves the connection.
unwrap(res) == res.kind = "Ok"

Server_did_open(uri, text, parsed) ==
    /\ alive
    /\ LET o == handler_did_open(CurrentStore, uri, text, parsed)
       IN  /\ SetStore(o.store)
           /\ last' = Call("did_open", uri, [text |-> text, parsed |-> parsed], o.res)
           /\ alive' = unwrap(o.res)
    /\ UNCHANGED <<debug_assertions, client, inflight>>

Server_did_change(uri, content_changes, parsed) ==
    /\ alive
    /\ LET o == handler_did_change(CurrentStore, uri, content_changes, parsed)
       IN  /\ SetStore(o.store)
           /\ last' = Call("did_change", uri,
                           [content_changes |-> content_changes, parsed |-> parsed],
                           o.res)
           /\ alive' = unwrap(o.res)
    /\ UNCHANGED <<debug_assertions, client, inflight>>

Server_did_close(uri) ==
    /\ alive
    /\ LET o == handler_did_close(CurrentStore, uri)
       IN  /\ SetStore(o.store)
           /\ last' = Call("did_close", uri, None, o.res)
           /\ alive' = unwrap(o.res)
    /\ UNCHANGED <<debug_assertions, client, inflight>>

\* An Err becomes the request's error response; only a panic ends the task.
Server_document_symbol(uri) ==
    /\ alive
    /\ LET o == handler_document_symbol(CurrentStore, uri)
       IN  /\ SetStore(o.store)
           /\ last' = Call("document_symbol", uri, None, o.res)
           /\ alive' = (o.res.kind # "Panic")
    /\ UNCHANGED <<debug_assertions, client, inflight>>

\* The accessors of the Session, called on their own.
Getters == {"get_text", "get_mut_text", "get_mut_parser", "get_tree", "get_mut_tree"}

GetterResult(g, s, uri) ==
    CASE g = "get_text" -> get_text(s, uri)
      [] g = "get_mut_text" -> get_mut_text(s, uri)
      [] g = "get_mut_parser" -> get_mut_parser(s, uri)
      [] g = "get_tree" -> get_tree(s, uri)
      [] g = "get_mut_tree" -> get_mut_tree(s, uri)

Session_get(g, uri) ==
    /\ last' = Call(g, uri, None, GetterResult(g, CurrentStore, uri))
    /\ UNCHANGED <<debug_assertions, client, document_texts, document_parsers,
                   document_trees, alive, inflight>>

(***************************************************************************)
(* Characters and text                                                     *)
(***************************************************************************)

\* The characters a key may type: an ASCII letter, an ASCII punctuation mark,
\* a tab, and a double-width letter outside the basic plane (U+20000).
Chars == {"a", ".", "TAB", "W"}

CR == "CR"
LF == "LF"

\* char::len_utf8
Utf8Len(c) == IF c = "W" THEN 4 ELSE 1

\* char::len_utf16
Utf16Len(c) == IF c = "W" THEN 2 ELSE 1

\* char::is_alphanumeric
IsAlphanumeric(c) == c \in {"a", "W"}

\* Columns the character takes on the screen (tab_width: 4).
Width(c) == IF c = "TAB" THEN 4 ELSE IF c = "W" THEN 2 ELSE 1

RECURSIVE SumOver(_, _, _)
\* The sum of Len(c) over the first n characters of str, Len being one of
\* the three measures above ("utf8", "utf16", "width").
SumOver(measure, str, n) ==
    IF n = 0 \/ str = << >> THEN 0
    ELSE (CASE measure = "utf8" -> Utf8Len(Head(str))
            [] measure = "utf16" -> Utf16Len(Head(str))
            [] measure = "width" -> Width(Head(str)))
         + SumOver(measure, Tail(str), n - 1)

\* str.len(): the length in bytes.
ByteLen(str) == SumOver("utf8", str, Len(str))

\* str.chars().count()
CharCount(str) == Len(str)

Take(str, n) == SubSeq(str, 1, n)
Drop(str, n) == SubSeq(str, n + 1, Len(str))

Min(a, b) == IF a < b THEN a ELSE b

(***************************************************************************)
(* kaolinite::Document as src/src/tui/app.rs uses it. Rows and columns     *)
(* count from 0; lines[y + 1] is row y. cursor is a screen position (the   *)
(* offset stays 0: the document is smaller than the terminal), char_ptr    *)
(* the index of the character under the cursor.                            *)
(***************************************************************************)

Loc(x, y) == [x |-> x, y |-> y]

(***************************************************************************)
(* CompletionMenuState (src/src/tui/completion_menu.rs)                    *)
(***************************************************************************)

\* #[derive(Default)]: nothing is selected, there are no completions.
CompletionMenuState_default ==
    [list_state |-> [selected |-> Nothing], completions |-> << >>]

\* What a call leaves behind: the state, and whether a subtraction overflowed
\* in a build that checks for it.
MenuOutcome(state, panic) == [state |-> state, panic |-> panic]

\* ListState::select
select(m, index) == [m EXCEPT !.list_state.selected = index]

\* usize::MAX, the value 0 - 1 wraps to, written as its residue modulo 2^64.
USIZE_MAX == -1

\* self.completions.len() - 1 in usize: in a build without overflow checks
\* the difference wraps.
len_minus_one(m) ==
    IF Len(m.completions) = 0 THEN USIZE_MAX ELSE Len(m.completions) - 1

\* a < b for an index a the model can hold and a usize b.
usize_less(a, b) == IF b = USIZE_MAX THEN TRUE ELSE a < b

\* The subtraction panics in a build with overflow checks.
len_underflows(m) == debug_assertions /\ Len(m.completions) = 0

\* CompletionMenuState::next
CompletionMenuState_next(m) ==
    IF IsSome(m.list_state.selected)
    THEN IF len_underflows(m) THEN MenuOutcome(m, TRUE)
         ELSE IF usize_less(m.list_state.selected[1], len_minus_one(m))
         THEN MenuOutcome(select(m, Some(m.list_state.selected[1] + 1)), FALSE)
         ELSE MenuOutcome(select(m, Some(0)), FALSE)
    ELSE MenuOutcome(m, FALSE)

\* CompletionMenuState::previous
CompletionMenuState_previous(m) ==
    IF IsSome(m.list_state.selected)
    THEN IF m.list_state.selected[1] > 0
         THEN MenuOutcome(select(m, Some(m.list_state.selected[1] - 1)), FALSE)
         ELSE IF len_underflows(m) THEN MenuOutcome(m, TRUE)
         ELSE MenuOutcome(select(m, Some(len_minus_one(m))), FALSE)
    ELSE MenuOutcome(m, FALSE)

\* A set_completions that keeps the selection it finds.
set_completions_keeps_selection(m, list) ==
    MenuOutcome([m EXCEPT !.completions = list], FALSE)

\* CompletionMenuState::set_completions
set_completions(m, list) ==
    IF list = << >>
    THEN MenuOutcome(select([m EXCEPT !.completions = list], Nothing), FALSE)
    ELSE MenuOutcome(select([m EXCEPT !.completions = list], Some(0)), FALSE)

\* The width and the height of the App and the Size of its document.
Sized(width, height) ==
    [width |-> width, height |-> height, doc |-> [w |-> width, h |-> height]]

\* The sizes a terminal reports.
Sizes == {<<80, 24>>, <<120, 40>>}

\* App::initialize: terminal::size() is the size of the App and of the document.
NewSize == Sized(80, 24)

\* Document { file: Rope::default(), lines: vec![], cursor: Loc::default(), .. }
NewDocument == [lines |-> << >>, cursor |-> Loc(0, 0), char_ptr |-> 0]

len_lines(d) == Len(d.lines)

\* Document::line: the row's text, when the row exists.
line(d, y) == IF y < Len(d.lines) THEN Some(d.lines[y + 1]) ELSE Nothing

\* The row's text, or "" where the code falls back to it.
LineOrEmpty(d, y) == IF y < Len(d.lines) THEN d.lines[y + 1] ELSE << >>

loc(d) == d.cursor

char_loc(d) == Loc(d.char_ptr, d.cursor.y)

\* Document::out_of_range(x, y).is_err()
out_of_range(d, x, y) ==
    \/ y >= len_lines(d)
    \/ x > CharCount(LineOrEmpty(d, y))

\* The screen column of character index n of a line.
DisplayIdx(str, n) == SumOver("width", str, n)

RECURSIVE CharIdxAt(_, _)
\* The index of the character that covers screen column x of a line (the
\* number of characters that end at or before x), at most the line's length.
CharIdxAt(str, x) ==
    IF str = << >> \/ Width(Head(str)) > x THEN 0
    ELSE 1 + CharIdxAt(Tail(str), x - Width(Head(str)))

\* The cursor on row y as near screen column x as the row allows: not past
\* the end of the row, and not inside a wide character.
CursorAt(d, x, y) ==
    LET str == LineOrEmpty(d, y)
        ptr == CharIdxAt(str, x)
    IN  [d EXCEPT !.cursor = Loc(DisplayIdx(str, ptr), y), !.char_ptr = ptr]

\* The cursor at character index n of row y.
Goto(d, n, y) ==
    [d EXCEPT !.cursor = Loc(DisplayIdx(LineOrEmpty(d, y), n), y),
              !.char_ptr = n]

move_up(d) ==
    IF d.cursor.y = 0 THEN d ELSE CursorAt(d, d.cursor.x, d.cursor.y - 1)

\* The cursor may go one row below the last line, onto the empty row there.
move_down(d) ==
    IF d.cursor.y >= len_lines(d) THEN d
    ELSE CursorAt(d, d.cursor.x, d.cursor.y + 1)

move_left(d) ==
    IF d.char_ptr = 0 THEN d ELSE Goto(d, d.char_ptr - 1, d.cursor.y)

move_right(d) ==
    IF d.char_ptr >= CharCount(LineOrEmpty(d, d.cursor.y)) THEN d
    ELSE Goto(d, d.char_ptr + 1, d.cursor.y)

ReplaceLine(d, y, str) == [d EXCEPT !.lines[y + 1] = str]

InsertLineAt(lines, y, str) == Take(lines, y) \o <<str>> \o Drop(lines, y)

RemoveLineAt(lines, y) == Take(lines, y) \o Drop(lines, y + 1)

\* Event::Insert(loc, st): st goes in at character loc.x of row loc.y and the
\* cursor ends up after it.
exe_Insert(d, l, st) ==
    IF out_of_range(d, l.x, l.y) THEN Err("OutOfRange")
    ELSE LET str == d.lines[l.y + 1]
             new == Take(str, l.x) \o st \o Drop(str, l.x)
         IN  Ok(Goto(ReplaceLine(d, l.y, new), l.x + Len(st), l.y))

\* Event::Delete(loc, st): the characters of st leave row loc.y at character
\* loc.x and the cursor ends up there.
exe_Delete(d, l, st) ==
    IF out_of_range(d, l.x, l.y) THEN Err("OutOfRange")
    ELSE LET str == d.lines[l.y + 1]
             new == Take(str, l.x) \o Drop(str, l.x + Len(st))
         IN  Ok(Goto(ReplaceLine(d, l.y, new), l.x, l.y))

\* Event::InsertLine(y, st): st becomes row y and the cursor goes to that row.
exe_InsertLine(d, y, st) ==
    IF y > len_lines(d) THEN Err("OutOfRange")
    ELSE Ok(CursorAt([d EXCEPT !.lines = InsertLineAt(d.lines, y, st)],
                     d.cursor.x, y))

\* Event::SplitDown(loc): row loc.y is cut at character loc.x, the rest
\* becomes the next row and the cursor goes to its start.
exe_SplitDown(d, l) ==
    IF out_of_range(d, l.x, l.y) THEN Err("OutOfRange")
    ELSE LET str == d.lines[l.y + 1]
             cut == ReplaceLine(d, l.y, Take(str, l.x))
             new == [cut EXCEPT !.lines =
                         InsertLineAt(cut.lines, l.y + 1, Drop(str, l.x))]
         IN  Ok(Goto(new, 0, l.y + 1))

\* Event::SpliceUp(loc): the row below loc.y is appended to row loc.y and the
\* cursor goes to where the two meet.
exe_SpliceUp(d, l) ==
    IF out_of_range(d, l.x, l.y) \/ l.y + 1 >= len_lines(d)
    THEN Err("OutOfRange")
    ELSE LET joined == ReplaceLine(d, l.y, d.lines[l.y + 1] \o d.lines[l.y + 2])
             new == [joined EXCEPT !.lines = RemoveLineAt(joined.lines, l.y + 1)]
         IN  Ok(Goto(new, l.x, l.y))

RECURSIVE RopeOf(_)
\* Document.file: every line of the document followed by a line feed.
RopeOf(lines) ==
    IF lines = << >> THEN << >>
    ELSE Head(lines) \o <<LF>> \o RopeOf(Tail(lines))

(***************************************************************************)
(* App (src/src/tui/app.rs): editing                                       *)
(***************************************************************************)

Encodings == {"Utf8", "Utf16", "Utf32"}

Position(l, c) == [line |-> l, character |-> c]

Range(start, end) == [start |-> start, end |-> end]

Change(range, text) == [range |-> range, text |-> text]

\* Document::to_utf8_loc: the byte offset of character l.x in row l.y.
to_utf8_loc(d, l) == Loc(SumOver("utf8", LineOrEmpty(d, l.y), l.x), l.y)

\* Document::to_utf16_loc: the UTF-16 code units before character l.x in row l.y.
to_utf16_loc(d, l) == Loc(SumOver("utf16", LineOrEmpty(d, l.y), l.x), l.y)

\* A translation that counts UTF-16 code units whatever was negotiated.
get_lsp_position_utf16(d, l) ==
    Position(to_utf16_loc(d, l).y, to_utf16_loc(d, l).x)

\* App::get_lsp_position
get_lsp_position(d, l) ==
    LET new_loc == CASE encoding = "Utf8" -> to_utf8_loc(d, l)
                     [] encoding = "Utf16" -> to_utf16_loc(d, l)
                     [] encoding = "Utf32" -> l
    IN  Position(new_loc.y, new_loc.x)

\* What an editing function leaves behind: the document, the change
\* descriptors it returns, and whether an unwrap in it panicked.
Edited(d, changes, panic) == [doc |-> d, changes |-> changes, panic |-> panic]

\* App::new_row: with the cursor on the row below the last line, that row is
\* made an empty line of the document.
new_row(d) ==
    IF loc(d).y = len_lines(d)
    THEN LET y == loc(d).y
             r == exe_InsertLine(d, y, << >>)
         IN  IF r.kind # "Ok" THEN Edited(d, Nothing, TRUE)
             ELSE LET lsp_pos == get_lsp_position(
                          r.value, Loc(ByteLen(LineOrEmpty(r.value, y)), y))
                  IN  Edited(r.value,
                             Some(Change(Range(lsp_pos,
                                               Position(lsp_pos.line + 1, 0)),
                                         <<CR, LF>>)),
                             FALSE)
    ELSE Edited(d, Nothing, FALSE)

\* App::character, were the range of its descriptor to end after the
\* character typed.
character_insert_range_past(row, ch) ==
    LET l == char_loc(row.doc)
        lsp_pos == get_lsp_position(row.doc, l)
        r == exe_Insert(row.doc, l, <<ch>>)
    IN  IF row.panic THEN row
        ELSE IF r.kind # "Ok" THEN Edited(row.doc, row.changes, TRUE)
        ELSE Edited(r.value,
                    row.changes \o <<Change(Range(lsp_pos,
                                                  Position(lsp_pos.line,
                                                           lsp_pos.character + 1)),
                                            <<ch>>)>>,
                    FALSE)

\* App::character after its call of new_row, which left `row` behind.
character_insert(row, ch) ==
    LET l == char_loc(row.doc)
        lsp_pos == get_lsp_position(row.doc, l)
        r == exe_Insert(row.doc, l, <<ch>>)
    IN  IF row.panic THEN row
        ELSE IF r.kind # "Ok" THEN Edited(row.doc, row.changes, TRUE)
        ELSE Edited(r.value,
                    row.changes \o <<Change(Range(lsp_pos, lsp_pos), <<ch>>)>>,
                    FALSE)

\* App::character, were it to drop the descriptor of new_row.
character_discards_row(d, ch) ==
    character_insert([new_row(d) EXCEPT !.changes = Nothing], ch)

\* App::character
character(d, ch) == character_insert(new_row(d), ch)

\* App::enter, were the text of its descriptor a line feed alone.
enter_line_feed(d) ==
    IF loc(d).y # len_lines(d)
    THEN LET l == char_loc(d)
             lsp_pos == get_lsp_position(d, l)
             r == exe_SplitDown(d, l)
         IN  IF r.kind # "Ok" THEN Edited(d, Nothing, TRUE)
             ELSE Edited(r.value,
                         Some(Change(Range(lsp_pos, Position(lsp_pos.line + 1, 0)),
                                     <<LF>>)),
                         FALSE)
    ELSE new_row(d)

\* App::enter
enter(d) ==
    IF loc(d).y # len_lines(d)
    THEN LET l == char_loc(d)
             lsp_pos == get_lsp_position(d, l)
             r == exe_SplitDown(d, l)
         IN  IF r.kind # "Ok" THEN Edited(d, Nothing, TRUE)
             ELSE Edited(r.value,
                         Some(Change(Range(lsp_pos, Position(lsp_pos.line + 1, 0)),
                                     <<CR, LF>>)),
                         FALSE)
    ELSE new_row(d)

\* App::backspace at the start of a row below the first, after its call of
\* new_row, which left `row` behind: the row is appended to the one above.
backspace_splice(row) ==
    LET d1 == row.doc
        y == char_loc(d1).y - 1
        l == Loc(CharCount(LineOrEmpty(d1, y)), y)
        lsp_pos == get_lsp_position(d1, l)
        r == exe_SpliceUp(d1, l)
    IN  IF row.panic \/ r.kind # "Ok" THEN Edited(d1, Nothing, TRUE)
        ELSE Edited(r.value,
                    Some(Change(Range(lsp_pos, Position(lsp_pos.line + 1, 0)),
                                << >>)),
                    FALSE)

\* App::backspace, were it to return an empty change when there is nothing
\* to delete.
backspace_empty_change(d) ==
    LET c == d.char_ptr
        on_first_line == loc(d).y = 0
        is_out_of_range == out_of_range(d, 0, loc(d).y)
    IN  IF c = 0 /\ ~on_first_line /\ ~is_out_of_range
        THEN backspace_splice(new_row(d))
        ELSE IF c > 0 /\ IsSome(line(d, loc(d).y))
                      /\ c - 1 < CharCount(LineOrEmpty(d, loc(d).y))
        THEN LET str == LineOrEmpty(d, loc(d).y)
                 ch == str[c]
                 l == Loc(c - 1, loc(d).y)
                 lsp_pos == get_lsp_position(d, l)
                 r == exe_Delete(d, l, <<ch>>)
             IN  IF r.kind # "Ok" THEN Edited(d, Nothing, TRUE)
                 ELSE Edited(r.value,
                             Some(Change(Range(lsp_pos,
                                               Position(lsp_pos.line,
                                                        lsp_pos.character + 1)),
                                         << >>)),
                             FALSE)
        ELSE Edited(d, Some(Change(Range(Position(0, 0), Position(0, 0)), << >>)),
                    FALSE)

\* App::backspace
backspace(d) ==
    LET c == d.char_ptr
        on_first_line == loc(d).y = 0
        is_out_of_range == out_of_range(d, 0, loc(d).y)
    IN  IF c = 0 /\ ~on_first_line /\ ~is_out_of_range
        THEN backspace_splice(new_row(d))
        ELSE IF c > 0 /\ IsSome(line(d, loc(d).y))
                      /\ c - 1 < CharCount(LineOrEmpty(d, loc(d).y))
        THEN LET str == LineOrEmpty(d, loc(d).y)
                 ch == str[c]
                 l == Loc(c - 1, loc(d).y)
                 lsp_pos == get_lsp_position(d, l)
                 r == exe_Delete(d, l, <<ch>>)
             IN  IF r.kind # "Ok" THEN Edited(d, Nothing, TRUE)
                 ELSE Edited(r.value,
                             Some(Change(Range(lsp_pos,
                                               Position(lsp_pos.line,
                                                        lsp_pos.character + 1)),
                                         << >>)),
                             FALSE)
        ELSE Edited(d, Nothing, FALSE)

(***************************************************************************)
(* Key events                                                              *)
(***************************************************************************)

Key(code, ch) == [code |-> code, ch |-> ch]

\* KeyCode::Char(c) with no modifier or SHIFT.
CharKeys == {Key("Char", c) : c \in Chars \ {"TAB"}}

\* "Quit" is CONTROL + 'q'; "Other" is any key the match does not name.
Keys == CharKeys \cup {Key(k, None) : k \in {"Tab", "Backspace", "Enter", "Up",
                                            "Down", "Left", "Right", "Quit",
                                            "Other"}}

\* The first match, were a key the match does not name typed as a letter.
KeyEdit_unmatched_typed(d, key) ==
    CASE key.code = "Up" -> Edited(move_up(d), << >>, FALSE)
      [] key.code = "Down" -> Edited(move_down(d), << >>, FALSE)
      [] key.code = "Left" -> Edited(move_left(d), << >>, FALSE)
      [] key.code = "Right" -> Edited(move_right(d), << >>, FALSE)
      [] key.code = "Char" -> character(d, key.ch)
      [] key.code = "Tab" -> character(d, "TAB")
      [] key.code = "Backspace" -> backspace(d)
      [] key.code = "Enter" -> enter(d)
      [] OTHER -> character(d, "a")

\* The first match of handle_key_event: the cursor moves or the text is edited.
KeyEdit(d, key) ==
    CASE key.code = "Up" -> Edited(move_up(d), << >>, FALSE)
      [] key.code = "Down" -> Edited(move_down(d), << >>, FALSE)
      [] key.code = "Left" -> Edited(move_left(d), << >>, FALSE)
      [] key.code = "Right" -> Edited(move_right(d), << >>, FALSE)
      [] key.code = "Char" -> character(d, key.ch)
      [] key.code = "Tab" -> character(d, "TAB")
      [] key.code = "Backspace" -> backspace(d)
      [] key.code = "Enter" -> enter(d)
      [] OTHER -> Edited(d, << >>, FALSE)

(***************************************************************************)
(* App (src/src/tui/app.rs): the update loop                               *)
(***************************************************************************)

I32_MAX == 2147483647
I32_MIN == -I32_MAX - 1

\* The number of key events one run handles.
MaxKeys == 4

\* The key events of a run of SpecSession.
MaxSessionKeys == 4

\* The number of key events of a run that types tabs in front of text.
MaxTabKeys == 7

\* The number of key events of a run in which completion requests are answered.
MaxCompletionKeys == 2

\* The number of candidates of an answer to a completion request.
MaxItems == 2

\* The number of key events of a run with the commands and the server.
MaxSyncKeys == 2

\* The number of handlers suspended at the same time.
MaxInflight == 2

\* The number of candidates of a completion menu.
MaxMenuItems == 3

\* The number of matches of the symbol query in one document.
MaxMatches == 2

\* document_uri: "file://temp"
document_uri == "file://temp"

\* fetch_add that leaves the counter as it was.
fetch_add_nothing(v) == v

\* The value AtomicI32::fetch_add(1, SeqCst) leaves in the counter (it returns
\* the value before); the addition wraps.
fetch_add(v) == IF v = I32_MAX THEN I32_MIN ELSE v + 1

\* The notification that precedes did_open.
Initialized == [method |-> "initialized"]

\* The did_open notification of the empty document.
DidOpen(version) ==
    [method |-> "did_open", uri |-> document_uri, version |-> version,
     text |-> << >>]

\* get_change_command stamping the value the counter holds after fetch_add.
get_change_command_next_version(changes, version) ==
    [method |-> "did_change", uri |-> document_uri, version |-> version + 1,
     content_changes |-> changes]

\* App::get_change_command: one notification for all the changes of the key
\* event, with the version the counter held.
get_change_command(changes, version) ==
    [method |-> "did_change", uri |-> document_uri, version |-> version,
     content_changes |-> changes]

\* The request the completion command sends.
CompletionRequest(position, word) ==
    [method |-> "completion", uri |-> document_uri, position |-> position,
     word |-> word]

IsWordChar(c) == IsAlphanumeric(c) \/ c = "_"

\* The character counts n for which the first n characters of str take
\* exactly b bytes: str[..b] is a slice when there is one, and panics else.
ByteBoundary(str, b) == {n \in 0..Len(str) : SumOver("utf8", str, n) = b}

RECURSIVE WordSuffix(_)
\* The longest run of word characters that ends str.
WordSuffix(str) ==
    IF str = << >> \/ ~IsWordChar(str[Len(str)]) THEN << >>
    ELSE WordSuffix(Take(str, Len(str) - 1)) \o <<str[Len(str)]>>

\* What handle_key_event leaves behind.
Handled(d, version, show, compl, commands, status) ==
    [doc |-> d, document_version |-> version, show_completions |-> show,
     completions |-> compl, commands |-> commands, status |-> status]

\* Finished keeping the completions whatever show_completions is.
Finished_keeping_completions(e, version, show, commands) ==
    Handled(e.doc, version, show, completions, commands, "running")

\* The end of App::handle_key_event: the completions are cleared unless
\* show_completions is set, and the commands are returned as a sequence.
Finished(e, version, show, commands) ==
    Handled(e.doc, version, show, IF show THEN completions ELSE << >>,
            commands, "running")

\* App::handle_key_event from the cursor comparison on: the first match left
\* `e` behind, the cursor is at new_cursor on the row with the text str.
cursor_handled(e, new_cursor, str) ==
    LET active == new_cursor # doc.cursor \/ e.changes # << >>
        look == active /\ new_cursor.x > 0
        \* line(new_cursor.y).unwrap().chars().nth(new_cursor.x - 1).unwrap()
        no_previous_char == \/ ~IsSome(line(e.doc, new_cursor.y))
                            \/ new_cursor.x - 1 >= CharCount(str)
        previous_char == str[new_cursor.x]
        is_trigger == look /\ previous_char \in trigger_characters
        show == look /\ (IsWordChar(previous_char) \/ is_trigger)
        changed == active /\ e.changes # << >>
        version == IF changed THEN fetch_add(document_version)
                   ELSE document_version
        change_commands ==
            IF changed THEN <<get_change_command(e.changes, document_version)>>
            ELSE << >>
        \* line(new_cursor.y).unwrap()[..new_cursor.x]
        no_slice == ByteBoundary(str, new_cursor.x) = {}
        word_under_cursor ==
            WordSuffix(Take(str, CHOOSE n \in ByteBoundary(str, new_cursor.x) : TRUE))
        min_completion_length == 2
        request == is_trigger \/ ByteLen(word_under_cursor) >= min_completion_length
    IN  IF look /\ no_previous_char
        THEN Handled(e.doc, document_version, FALSE, completions,
                     << >>, "panicked")
        ELSE IF ~show
        THEN Finished(e, version, FALSE, change_commands)
        ELSE IF no_slice
        THEN Handled(e.doc, version, TRUE, completions, << >>, "panicked")
        ELSE IF ~request
        THEN Finished(e, version, FALSE, change_commands)
        ELSE Finished(e, version, TRUE,
                      Append(change_commands,
                             CompletionRequest(get_lsp_position(e.doc, new_cursor),
                                               word_under_cursor)))

\* App::handle_key_event after its first match, which left `e` behind.
key_handled(e) ==
    IF e.panic
    THEN Handled(e.doc, document_version, show_completions, completions,
                 << >>, "panicked")
    ELSE cursor_handled(e, e.doc.cursor, LineOrEmpty(e.doc, e.doc.cursor.y))

\* App::handle_key_event
handle_key_event(key) ==
    IF key.code = "Quit"
    THEN Handled(doc, document_version, show_completions, completions,
                 << >>, "quit")
    ELSE key_handled(KeyEdit(doc, key))

(***************************************************************************)
(* The text a peer holds after the change descriptors it was sent          *)
(***************************************************************************)

UnitLen(c, enc) ==
    CASE enc = "Utf8" -> Utf8Len(c)
      [] enc = "Utf16" -> Utf16Len(c)
      [] enc = "Utf32" -> 1

IsEol(c) == c \in {CR, LF}

RECURSIVE EolFrom(_, _)
\* The offset of the first line terminator at or after offset `from`, or
\* Len(text) when the line that holds `from` is the last one.
EolFrom(text, from) ==
    IF from >= Len(text) THEN Len(text)
    ELSE IF IsEol(text[from + 1]) THEN from
    ELSE EolFrom(text, from + 1)

\* The length of the line terminator at offset e: "\r\n" is one terminator.
EolLen(text, e) ==
    IF text[e + 1] = CR /\ e + 2 <= Len(text) /\ text[e + 2] = LF THEN 2 ELSE 1

RECURSIVE LineStart(_, _, _)
\* The offset at which the n-th line after the line that starts at `from`
\* starts, or -1 when the text has no such line.
LineStart(text, from, n) ==
    IF n = 0 THEN from
    ELSE LET e == EolFrom(text, from)
         IN  IF e = Len(text) THEN -1
             ELSE LineStart(text, e + EolLen(text, e), n - 1)

RECURSIVE Advance(_, _, _, _)
\* The offset `units` code units into the line from offset off: not past the
\* end of the line, and not into the middle of a character.
Advance(text, off, units, enc) ==
    IF off >= Len(text) \/ IsEol(text[off + 1]) THEN off
    ELSE IF UnitLen(text[off + 1], enc) > units THEN off
    ELSE Advance(text, off + 1, units - UnitLen(text[off + 1], enc), enc)

\* The offset of a position; a line past the last one is the end of the text.
OffsetOf(text, pos, enc) ==
    LET start == LineStart(text, 0, pos.line)
    IN  IF start = -1 THEN Len(text)
        ELSE Advance(text, start, pos.character, enc)

\* The text after one change descriptor: the range is replaced by the text.
ApplyChange(text, change, enc) ==
    LET s == OffsetOf(text, change.range.start, enc)
        e == OffsetOf(text, change.range.end, enc)
    IN  Take(text, s) \o change.text \o Drop(text, IF e < s THEN s ELSE e)

RECURSIVE ApplyChanges(_, _, _)
ApplyChanges(text, changes, enc) ==
    IF changes = << >> THEN text
    ELSE ApplyChanges(ApplyChange(text, Head(changes), enc), Tail(changes), enc)

RECURSIVE NormalizeEol(_)
\* The text with every line terminator written as a line feed.
NormalizeEol(text) ==
    IF text = << >> THEN << >>
    ELSE IF IsEol(Head(text))
    THEN <<LF>> \o NormalizeEol(Drop(text, EolLen(text, 0)))
    ELSE <<Head(text)>> \o NormalizeEol(Tail(text))

\* The change notifications among the commands.
Notifications(commands) ==
    SelectSeq(commands, LAMBDA c : c.method \in {"did_open", "did_change"})

RECURSIVE Replay(_, _)
\* The text after the change descriptors of the notifications, in order.
Replay(text, notifications) ==
    IF notifications = << >> THEN text
    ELSE Replay(ApplyChanges(text, Head(notifications).content_changes, encoding),
                Tail(notifications))

(***************************************************************************)
(* Actions of the update loop                                              *)
(***************************************************************************)

\* Model::init: the counter is read and advanced, the command that sends
\* initialized and did_open is created and spawned.
AppInit ==
    /\ app = "new"
    /\ app' = "running"
    /\ document_version' = fetch_add(document_version)
    /\ tasks' = Append(tasks, <<Initialized, DidOpen(document_version)>>)
    /\ emitted' = Append(emitted, DidOpen(document_version))
    /\ ropes' = Append(ropes, RopeOf(doc.lines))
    /\ UNCHANGED <<encoding, trigger_characters, menu, size, doc, text_area, text_document_sync, show_completions,
                   completions, keys, key_event, reference>>
    /\ UNCHANGED <<lsp_task, message_rx, wire, received, awaiting, answered>>

\* The state after a key event that left h behind: the commands of its
\* Message::Sequence are spawned as one task; the notifications among them
\* are recorded, and applied to the reference text.
KeyHandled(h) ==
    /\ doc' = h.doc
    /\ document_version' = h.document_version
    /\ show_completions' = h.show_completions
    /\ completions' = h.completions
    /\ app' = h.status
    /\ tasks' = IF h.commands = << >> THEN tasks ELSE Append(tasks, h.commands)
    /\ emitted' = emitted \o Notifications(h.commands)
    /\ ropes' = ropes \o [i \in 1..Len(Notifications(h.commands)) |-> RopeOf(h.doc.lines)]
    /\ reference' = Replay(reference, Notifications(h.commands))

\* Model::update with Message::TermEvent(Event::Key(..)).
KeyEvent(key) ==
    /\ app = "running"
    /\ lsp_task = "none"
    /\ keys' = keys + 1
    /\ key_event' = key
    /\ KeyHandled(handle_key_event(key))
    /\ UNCHANGED <<encoding, trigger_characters, menu, size, text_area,
                   text_document_sync>>
    /\ UNCHANGED <<lsp_task, message_rx, wire, received, awaiting, answered>>

\* A resize that also takes the cursor back to the start of its row.
Resize_moves_cursor(width, height) ==
    /\ app = "running"
    /\ lsp_task = "none"
    /\ size' = Sized(width, height)
    /\ doc' = [doc EXCEPT !.cursor = Loc(0, doc.cursor.y), !.char_ptr = 0]
    /\ UNCHANGED <<encoding, trigger_characters, menu, text_area, text_document_sync,
                   document_version, show_completions, completions, app, keys, key_event>>
    /\ UNCHANGED <<syncVars, historyVars>>

\* Model::update with Message::TermEvent(Event::Resize(width, height)): the
\* width and the height are stored, in the App and in each document.
Resize(width, height) ==
    /\ app = "running"
    /\ lsp_task = "none"
    /\ size' = [size EXCEPT !.width = width, !.height = height,
                            !.doc = [w |-> width, h |-> height]]
    /\ UNCHANGED <<encoding, trigger_characters, menu, doc, text_area, text_document_sync,
                   document_version, show_completions, completions, app, keys, key_event>>
    /\ UNCHANGED <<syncVars, historyVars>>

\* A spawned command runs to its next await: what it sends is on the wire.
\* Which of the spawned commands runs is the scheduler's choice.
TaskStep(i) ==
    /\ i \in 1..Len(tasks)
    /\ wire' = Append(wire, Head(tasks[i]))
    /\ tasks' = IF Len(tasks[i]) = 1
                THEN Take(tasks, i - 1) \o Drop(tasks, i)
                ELSE [tasks EXCEPT ![i] = Tail(tasks[i])]
    /\ UNCHANGED <<appVars, serverVars, historyVars>>
    /\ awaiting' = IF Head(tasks[i]).method = "completion"
                   THEN Append(awaiting, Head(tasks[i])) ELSE awaiting
    /\ UNCHANGED <<lsp_task, message_rx, received, answered>>

(***************************************************************************)
(* Completion responses (src/src/tui/app.rs)                               *)
(***************************************************************************)

\* CompletionItem { label, filter_text, sort_text, .. }
CompletionItem(label, filter_text, sort_text) ==
    [label |-> label, filter_text |-> filter_text, sort_text |-> sort_text]

\* CompletionResponse::Array(items) and CompletionResponse::List(list)
CompletionResponse(shape, items) == [shape |-> shape, items |-> items]

\* str::starts_with
starts_with(str, prefix) ==
    Len(prefix) <= Len(str) /\ Take(str, Len(prefix)) = prefix

\* The first byte of the UTF-8 encoding of a character, which orders str.
FirstByte(c) ==
    CASE c = "TAB" -> 9
      [] c = "LF" -> 10
      [] c = "CR" -> 13
      [] c = "." -> 46
      [] c = "a" -> 97
      [] c = "W" -> 240

RECURSIVE StrLess(_, _)
\* a < b for str: lexicographic by bytes.
StrLess(a, b) ==
    IF b = << >> THEN FALSE
    ELSE IF a = << >> THEN TRUE
    ELSE IF Head(a) # Head(b) THEN FirstByte(Head(a)) < FirstByte(Head(b))
    ELSE StrLess(Tail(a), Tail(b))

\* a < b for Option<String>: None is less than every Some.
OptionLess(a, b) ==
    IF ~IsSome(a) THEN IsSome(b) ELSE IsSome(b) /\ StrLess(a[1], b[1])

RECURSIVE InsertSorted(_, _)
\* x in front of the first item of sorted that is not less than it.
InsertSorted(x, sorted) ==
    IF sorted = << >> THEN <<x>>
    ELSE IF OptionLess(Head(sorted).sort_text, x.sort_text)
    THEN <<Head(sorted)>> \o InsertSorted(x, Tail(sorted))
    ELSE <<x>> \o sorted

RECURSIVE sort_by(_)
\* sort_by(|a, b| a.sort_text.cmp(&b.sort_text)): a stable sort.
sort_by(items) ==
    IF items = << >> THEN << >>
    ELSE InsertSorted(Head(items), sort_by(Tail(items)))

\* The items of a response that pass its filter, in the order they came.
filtered(response, word_under_cursor) ==
    IF response.shape = "Array"
    THEN SelectSeq(response.items,
                   LAMBDA i : starts_with(i.label, word_under_cursor))
    ELSE SelectSeq(response.items,
                   LAMBDA i : starts_with(IF IsSome(i.filter_text)
                                          THEN i.filter_text[1] ELSE i.label,
                                          word_under_cursor))

\* The labels of items, in order.
Labels(items) == [k \in 1..Len(items) |-> items[k].label]

\* handle_completion_response
handle_completion_response(response, word_under_cursor) ==
    Labels(sort_by(filtered(response, word_under_cursor)))

\* LspResponse::Completions(completions)
LspResponse_Completions(list) == [response |-> "Completions", completions |-> list]

\* What the future of a command returns to the update loop when it ends,
\* having sent m and, for a completion request, got response: the commands
\* of init and of get_change_command end with None, the completion command
\* with Some(Message::custom(..)) if the answer holds a list.
command_result(m, response) ==
    CASE m.method \in {"did_open", "did_change"} -> Nothing
      [] m.method = "completion" ->
             IF IsSome(response)
             THEN Some(LspResponse_Completions(
                          handle_completion_response(response[1], m.word)))
             ELSE Nothing

\* The answer to completion request i arrives, its command returns and
\* update handles the message: Some(response) is stored after filtering by
\* the word the request was made for; Nothing, the answer with no list (or
\* an error, on which the command panics), leaves no message.
CompletionsArrive(i, response) ==
    /\ app = "running"
    /\ i \in 1..Len(awaiting)
    /\ awaiting' = Take(awaiting, i - 1) \o Drop(awaiting, i)
    /\ answered' = <<[request |-> awaiting[i], response |-> response]>>
    /\ completions' = IF IsSome(command_result(awaiting[i], response))
                      THEN command_result(awaiting[i], response)[1].completions
                      ELSE completions
    /\ UNCHANGED <<encoding, trigger_characters, menu, size, doc, text_area, text_document_sync, document_version,
                   show_completions, app, keys, key_event>>
    /\ UNCHANGED <<tasks, lsp_task, message_rx, wire, received>>
    /\ UNCHANGED <<serverVars, historyVars>>

(***************************************************************************)
(* The run loop and the task of src/src/tui/mod.rs                         *)
(***************************************************************************)

\* mpsc::channel(32)
ChannelCapacity == 32

\* App::new of mod.rs: the server's answer to initialize says how it wants
\* changes, and run_lsp_task spawns the task.
run_lsp_task(sync) ==
    /\ app = "new"
    /\ app' = "running"
    /\ lsp_task' = "spawned"
    /\ text_document_sync' = sync
    /\ UNCHANGED <<encoding, trigger_characters, menu, size, doc, text_area, document_version,
                   show_completions, completions, keys, key_event>>
    /\ UNCHANGED <<tasks, message_rx, wire, received, awaiting, answered>>
    /\ UNCHANGED <<serverVars, historyVars>>

\* The task of run_lsp_task up to its loop: initialized, then did_open with
\* the version the counter held.
LspTaskOpen ==
    /\ lsp_task = "spawned"
    /\ lsp_task' = "receiving"
    /\ document_version' = fetch_add(document_version)
    /\ wire' = wire \o <<Initialized, DidOpen(document_version)>>
    /\ emitted' = Append(emitted, DidOpen(document_version))
    /\ UNCHANGED <<encoding, trigger_characters, menu, size, doc, text_area, text_document_sync, show_completions,
                   completions, app, keys, key_event>>
    /\ UNCHANGED <<tasks, message_rx, received, awaiting, answered, ropes, reference>>
    /\ UNCHANGED serverVars

\* TextArea::default(): one empty line, the cursor at its start, no edit.
NewTextArea ==
    [lines |-> << << >> >>, cursor |-> [row |-> 0, col |-> 0], edit |-> Nothing]

\* An entry of TextArea::edits: i is the byte offset of the edit in its line.
Edit(kind, text, i, cursor_before, cursor_after) ==
    [kind |-> kind, text |-> text, i |-> i,
     cursor_before |-> cursor_before, cursor_after |-> cursor_after]

\* The text area after s went in at the cursor, as one edit of that kind.
insert_str(ta, kind, s) ==
    LET row == ta.cursor.row
        col == ta.cursor.col
        str == ta.lines[row + 1]
        after == [row |-> row, col |-> col + Len(s)]
    IN  [lines |-> [ta.lines EXCEPT ![row + 1] = Take(str, col) \o s \o Drop(str, col)],
         cursor |-> after,
         edit |-> Some(Edit(kind, s, SumOver("utf8", str, col), ta.cursor, after))]

\* TextArea::insert_newline
insert_newline(ta) ==
    LET row == ta.cursor.row
        col == ta.cursor.col
        str == ta.lines[row + 1]
        after == [row |-> row + 1, col |-> 0]
    IN  [lines |-> InsertLineAt([ta.lines EXCEPT ![row + 1] = Take(str, col)],
                                row + 1, Drop(str, col)),
         cursor |-> after,
         edit |-> Some(Edit("InsertNewline", << >>, SumOver("utf8", str, col),
                            ta.cursor, after))]

\* TextArea::delete_char: the character before the cursor goes, or, at the
\* start of a row below the first, the row joins the one above.
delete_char(ta) ==
    LET row == ta.cursor.row
        col == ta.cursor.col
        str == ta.lines[row + 1]
    IN  IF col > 0
        THEN LET after == [row |-> row, col |-> col - 1]
             IN  [lines |-> [ta.lines EXCEPT ![row + 1] =
                                Take(str, col - 1) \o Drop(str, col)],
                  cursor |-> after,
                  edit |-> Some(Edit("DeleteChar", <<str[col]>>,
                                     SumOver("utf8", str, col - 1), ta.cursor, after))]
        ELSE IF row > 0
        THEN LET prev == ta.lines[row]
                 after == [row |-> row - 1, col |-> CharCount(prev)]
             IN  [lines |-> RemoveLineAt([ta.lines EXCEPT ![row] = prev \o str], row),
                  cursor |-> after,
                  edit |-> Some(Edit("DeleteNewline", << >>, ByteLen(prev),
                                     ta.cursor, after))]
        ELSE ta

\* TextArea::input for the keys of TextAreaInputs, tab_len being 4: the text
\* area after the key; the text changed exactly when the key made an edit.
text_area_input(ta, input) ==
    CASE input.code = "Char" -> insert_str(ta, "InsertChar", <<input.ch>>)
      [] input.code = "Tab" ->
             insert_str(ta, "Insert", [k \in 1..(4 - (ta.cursor.col % 4)) |-> " "])
      [] input.code = "Enter" -> insert_newline(ta)
      [] input.code = "Backspace" -> delete_char(ta)
      [] input.code = "Left" ->
             IF ta.cursor.col > 0
             THEN [ta EXCEPT !.cursor.col = ta.cursor.col - 1]
             ELSE IF ta.cursor.row > 0
             THEN [ta EXCEPT !.cursor = [row |-> ta.cursor.row - 1,
                                         col |-> CharCount(ta.lines[ta.cursor.row])]]
             ELSE ta

\* What the run loop reads from the terminal; Esc ends the loop.
TextAreaInputs ==
    {Key("Char", "a"), Key("Char", "W"), Key("Tab", None), Key("Enter", None),
     Key("Backspace", None), Key("Left", None), Key("Esc", None)}

\* App::get_lsp_position of mod.rs: col is a byte offset into the row with
\* extra after it. Nothing when the row is missing, or when the cut is past
\* the end or inside a character (the slice panics).
text_area_lsp_position(ta, extra, row, col) ==
    IF row >= Len(ta.lines) THEN Nothing
    ELSE LET str == ta.lines[row + 1] \o extra
         IN  IF ByteBoundary(str, col) = {} THEN Nothing
             ELSE IF encoding = "Utf8" THEN Some(col)
             ELSE Some(SumOver("utf16", str, CHOOSE n \in ByteBoundary(str, col) : TRUE))

RECURSIVE join(_, _)
\* [String]::join
join(lines, sep) ==
    IF Len(lines) <= 1 THEN (IF lines = << >> THEN << >> ELSE Head(lines))
    ELSE Head(lines) \o sep \o join(Tail(lines), sep)

\* The event, were the ends of its range taken the other way round.
ChangeEvent_ends_swapped(start_row, start, end_row, end, text) ==
    IF start = Nothing \/ end = Nothing THEN Nothing
    ELSE Some(Change(Range(Position(end_row, end[1]), Position(start_row, start[1])),
                     text))

\* The event of an edit whose range starts at column start of row
\* cursor_before.row and ends at column end of row cursor_after.row; Nothing
\* when either column panicked.
ChangeEvent(start_row, start, end_row, end, text) ==
    IF start = Nothing \/ end = Nothing THEN Nothing
    ELSE Some(Change(Range(Position(start_row, start[1]), Position(end_row, end[1])),
                     text))

\* App::get_change_event of mod.rs, ta being the text area after the edit:
\* Some(event), or Nothing when it panics.
get_change_event(ta) ==
    IF text_document_sync # "INCREMENTAL"
    THEN Some(Change(None, join(ta.lines, <<CR, LF>>)))
    ELSE LET last_edit == ta.edit[1]
             before == last_edit.cursor_before
             after == last_edit.cursor_after
             i == last_edit.i
         IN  CASE last_edit.kind \in {"InsertChar", "Insert"} ->
                      ChangeEvent(before.row,
                                  text_area_lsp_position(ta, << >>, before.row, i),
                                  after.row,
                                  text_area_lsp_position(ta, << >>, after.row, i),
                                  last_edit.text)
               [] last_edit.kind = "DeleteChar" ->
                      ChangeEvent(after.row,
                                  text_area_lsp_position(ta, << >>, after.row, after.col),
                                  before.row,
                                  text_area_lsp_position(ta, last_edit.text,
                                                         before.row, before.col),
                                  << >>)
               [] last_edit.kind = "InsertNewline" ->
                      ChangeEvent(before.row,
                                  text_area_lsp_position(ta, << >>, before.row, i),
                                  after.row, Some(0), <<CR, LF>>)
               [] last_edit.kind = "DeleteNewline" ->
                      ChangeEvent(after.row,
                                  text_area_lsp_position(ta, << >>, after.row,
                                                         ByteLen(ta.lines[after.row + 1])),
                                  before.row, Some(0), << >>)
               [] last_edit.kind = "Remove" ->
                      ChangeEvent(before.row,
                                  text_area_lsp_position(ta, last_edit.text,
                                                         before.row, i),
                                  after.row,
                                  text_area_lsp_position(ta, << >>, after.row, i),
                                  << >>)

\* What one turn of the loop of App::run hands to try_send, in order, for
\* the text area ta the input left: the Change when the text changed, then
\* the Completion when it changed or the cursor moved; panicked when a
\* position panics, after the messages before it.
RunMessages(ta, changed, moved) ==
    LET event == get_change_event(ta)
        position == text_area_lsp_position(ta, << >>, ta.cursor.row, ta.cursor.col)
        change == IF changed /\ event # Nothing
                  THEN <<[msg |-> "Change", event |-> event[1]]>> ELSE << >>
    IN  IF changed /\ event = Nothing
        THEN [messages |-> << >>, panicked |-> TRUE]
        ELSE IF ~(changed \/ moved)
        THEN [messages |-> change, panicked |-> FALSE]
        ELSE IF position = Nothing
        THEN [messages |-> change, panicked |-> TRUE]
        ELSE [messages |-> Append(change,
                                  [msg |-> "Completion",
                                   position |-> Position(ta.cursor.row, position[1])]),
              panicked |-> FALSE]

\* The turn of the loop of App::run of mod.rs with its messages r:
\* try_send(..).unwrap() panics on a full channel, and on a channel whose
\* receiver is gone with the task that held it.
RunSent(r) ==
    IF lsp_task = "panicked"
    THEN /\ message_rx' = message_rx
         /\ app' = IF r.panicked \/ r.messages # << >> THEN "panicked" ELSE "running"
    ELSE /\ message_rx' = message_rx \o
                Take(r.messages, Min(ChannelCapacity - Len(message_rx), Len(r.messages)))
         /\ app' = IF r.panicked \/ Len(r.messages) > ChannelCapacity - Len(message_rx)
                   THEN "panicked" ELSE "running"

\* One input of App::run of mod.rs.
RunInput(input) ==
    /\ app = "running"
    /\ lsp_task # "none"
    /\ keys' = keys + 1
    /\ key_event' = input
    /\ IF input.code = "Esc"
       THEN /\ app' = "quit"
            /\ UNCHANGED <<text_area, message_rx>>
       ELSE /\ text_area' = text_area_input(text_area, input)
            /\ RunSent(RunMessages(text_area', text_area'.lines # text_area.lines,
                                   text_area'.cursor # text_area.cursor))
    /\ UNCHANGED <<encoding, trigger_characters, menu, size, doc, text_document_sync,
                   document_version, show_completions, completions>>
    /\ UNCHANGED <<tasks, lsp_task, wire, received, awaiting, answered>>
    /\ UNCHANGED <<serverVars, historyVars>>

\* One turn of the loop of the task: a Change is sent as a did_change with
\* the version the counter held, a Completion as a request whose answer the
\* task waits for. An answer that is an error panics the task at unwrap,
\* and the receiver of the channel goes with it.
LspTaskRecv(answer) ==
    /\ lsp_task = "receiving"
    /\ message_rx # << >>
    /\ IF Head(message_rx).msg = "Change"
       THEN LET n == get_change_command(<<Head(message_rx).event>>, document_version)
            IN  /\ answer = "result"
                /\ document_version' = fetch_add(document_version)
                /\ wire' = Append(wire, n)
                /\ emitted' = Append(emitted, n)
                /\ message_rx' = Tail(message_rx)
                /\ UNCHANGED lsp_task
       ELSE /\ wire' = Append(wire, CompletionRequest(Head(message_rx).position, None))
            /\ message_rx' = IF answer = "error" THEN << >> ELSE Tail(message_rx)
            /\ lsp_task' = IF answer = "error" THEN "panicked" ELSE lsp_task
            /\ UNCHANGED <<document_version, emitted>>
    /\ UNCHANGED <<encoding, trigger_characters, menu, size, doc, text_area, text_document_sync, show_completions,
                   completions, app, keys, key_event>>
    /\ UNCHANGED <<tasks, received, awaiting, answered, ropes, reference>>
    /\ UNCHANGED serverVars

(***************************************************************************)
(* The server end of the connection                                        *)
(***************************************************************************)

\* The server takes the next message off the connection and handles it; it
\* has no handler that changes the Session for initialized or completion.
ServerRecv(parsed) ==
    /\ wire # << >>
    /\ alive
    /\ wire' = Tail(wire)
    /\ received' = Append(received, Head(wire))
    /\ CASE Head(wire).method = "did_open" ->
                Server_did_open(Head(wire).uri, Head(wire).text, parsed)
         [] Head(wire).method = "did_change" ->
                Server_did_change(Head(wire).uri, Head(wire).content_changes, parsed)
         [] OTHER -> UNCHANGED serverVars
    /\ UNCHANGED <<appVars, historyVars>>
    /\ UNCHANGED <<tasks, lsp_task, message_rx, awaiting, answered>>

(***************************************************************************)
(* Specifications                                                          *)
(***************************************************************************)

InitServer ==
    /\ debug_assertions \in BOOLEAN
    /\ client \in BOOLEAN
    /\ document_texts = EmptyMap
    /\ document_parsers = EmptyMap
    /\ document_trees = EmptyMap
    /\ alive = TRUE
    /\ inflight = << >>
    /\ last = NoCall

\* App::initialize: the encoding and the trigger characters come from the
\* server's InitializeResult, the document is empty, the counter is 0.
InitLoop ==
    /\ encoding \in Encodings
    /\ trigger_characters \in {{}, {"."}}
    /\ size = NewSize
    /\ menu = CompletionMenuState_default
    /\ doc = NewDocument
    /\ text_area = NewTextArea
    /\ text_document_sync = None
    /\ document_version = 0
    /\ show_completions = FALSE
    /\ completions = << >>
    /\ keys = 0
    /\ key_event = Key(None, None)
    /\ tasks = << >>
    /\ lsp_task = "none"
    /\ message_rx = << >>
    /\ wire = << >>
    /\ received = << >>
    /\ answered = << >>
    /\ emitted = << >>
    /\ ropes = << >>
    /\ reference = << >>

\* Before Model::init: no command has been spawned, no request sent.
InitApp == InitLoop /\ app = "new" /\ awaiting = << >>

Init == InitServer /\ InitApp

clientVars == <<appVars, syncVars, historyVars>>

\* The server alone: the client does not run, whatever its capabilities.
InitStore == Init /\ encoding = "Utf16" /\ trigger_characters = {}

NextStore ==
    \/ /\ \E uri \in Uris, text \in OpenTexts, parsed \in BOOLEAN :
              Server_did_open(uri, text, parsed)
       /\ UNCHANGED clientVars
    \/ /\ \E uri \in Uris, changes \in ChangeLists, parsed \in BOOLEAN :
              Server_did_change(uri, changes, parsed)
       /\ UNCHANGED clientVars
    \/ /\ \E uri \in Uris : Server_did_close(uri)
       /\ UNCHANGED clientVars
    \/ /\ \E uri \in Uris : Server_document_symbol(uri)
       /\ UNCHANGED clientVars
    \/ /\ \E g \in Getters, uri \in Uris : Session_get(g, uri)
       /\ UNCHANGED clientVars

\* The Session store under any sequence of requests.
SpecStore == InitStore /\ [][NextStore]_vars

\* The update loop alone: the server does not run, whatever its build.
InitEdit == Init /\ debug_assertions /\ client

NextEdit ==
    \/ AppInit /\ UNCHANGED serverVars
    \/ /\ keys < MaxKeys
       /\ \E key \in Keys : KeyEvent(key)
       /\ UNCHANGED serverVars
    \/ /\ \E s \in Sizes : Resize(s[1], s[2])
       /\ UNCHANGED serverVars
    \/ \E sync \in {"FULL", "INCREMENTAL"} : run_lsp_task(sync)
    \/ /\ keys < MaxKeys
       /\ \E input \in TextAreaInputs : RunInput(input)

\* The update loop of the App under any sequence of key events.
SpecEdit == InitEdit /\ [][NextEdit]_vars

\* The keys of the runs that type tabs in front of text.
TabKeys == {Key("Char", "a"), Key("Tab", None), Key("Left", None)}

NextTab ==
    \/ AppInit /\ UNCHANGED serverVars
    \/ /\ keys < MaxTabKeys
       /\ \E key \in TabKeys : KeyEvent(key)
       /\ UNCHANGED serverVars

\* The update loop of the App under longer sequences of fewer keys, in which
\* the screen column of the cursor and its character index come apart.
SpecTab == InitEdit /\ [][NextTab]_vars

\* The strings of the candidates and the words of the requests.
Strings == {<< >>, <<"a">>, <<".">>, <<"a", "a">>, <<".", "a">>}

\* The candidates an answer may hold.
Items ==
    {CompletionItem(label, filter_text, sort_text) :
        label \in Strings \ {<< >>},
        filter_text \in {Nothing} \cup {Some(t) : t \in {<<"a">>, <<".">>}},
        sort_text \in {Nothing} \cup {Some(t) : t \in {<<"a">>, <<".">>}}}

\* The answers with a list: either shape, at most MaxItems candidates.
Responses ==
    {CompletionResponse(shape, items) :
        shape \in {"Array", "List"},
        items \in UNION {[1..n -> Items] : n \in 0..MaxItems}}

\* One completion request is awaiting its answer; nothing else is going on.
InitFilter ==
    /\ InitServer /\ debug_assertions /\ client
    /\ InitLoop /\ encoding = "Utf16" /\ trigger_characters = {"."}
    /\ app = "running"
    /\ awaiting \in {<<CompletionRequest(Position(0, Len(word)), word)>> :
                          word \in Strings}

NextFilter ==
    \E response \in Responses : CompletionsArrive(1, Some(response))

\* handle_completion_response on any answer for any word.
SpecFilter == InitFilter /\ [][NextFilter]_vars

\* The keys of the runs in which completion requests are answered.
CompletionKeys == {Key("Char", "a"), Key("Char", "."), Key("Backspace", None)}

\* The answers a completion request may get.
Answers ==
    { Nothing,
      Some(CompletionResponse("Array", <<CompletionItem(<<"a", "a">>, Nothing, Nothing)>>)),
      Some(CompletionResponse("List", <<CompletionItem(<<".", "a">>, Nothing, Nothing)>>)) }

NextCompletion ==
    \/ AppInit /\ UNCHANGED serverVars
    \/ /\ keys < MaxCompletionKeys
       /\ \E key \in CompletionKeys : KeyEvent(key)
       /\ UNCHANGED serverVars
    \/ \E i \in 1..Len(tasks) : TaskStep(i)
    \/ \E i \in 1..Len(awaiting), response \in Answers :
           CompletionsArrive(i, response)

\* The update loop, its commands and the answers to its completion requests,
\* under any sequence of key events and any scheduling.
SpecCompletion == InitEdit /\ [][NextCompletion]_vars

\* The keys of the runs in which every kind of message reaches update.
SessionKeys ==
    {Key("Char", "."), Key("Char", "W"), Key("Left", None), Key("Enter", None),
     Key("Backspace", None)}

NextSession ==
    \/ AppInit /\ UNCHANGED serverVars
    \/ /\ keys < MaxSessionKeys
       /\ tasks = << >>
       /\ \E key \in SessionKeys : KeyEvent(key)
       /\ UNCHANGED serverVars
    \/ /\ \E s \in Sizes : Resize(s[1], s[2])
       /\ UNCHANGED serverVars
    \/ \E i \in 1..Len(tasks) : TaskStep(i)
    \/ \E i \in 1..Len(awaiting), response \in Answers :
           CompletionsArrive(i, response)

\* The update loop under key events, resizes and the answers to its
\* completion requests, in any order; a key is typed when the commands of
\* the keys before it have sent their messages.
SpecSession == InitEdit /\ [][NextSession]_vars

\* The keys of the runs in which the commands and the server take their turns.
SyncKeys == {Key("Char", "a"), Key("Enter", None), Key("Backspace", None)}

NextSync ==
    \/ AppInit /\ UNCHANGED serverVars
    \/ /\ keys < MaxSyncKeys
       /\ \E key \in SyncKeys : KeyEvent(key)
       /\ UNCHANGED serverVars
    \/ \E i \in 1..Len(tasks) : TaskStep(i)
    \/ \E sync \in {"FULL", "INCREMENTAL"} : run_lsp_task(sync)
    \/ LspTaskOpen
    \/ /\ keys < MaxSyncKeys
       /\ \E input \in TextAreaInputs : RunInput(input)
    \/ \E answer \in {"result", "error"} : LspTaskRecv(answer)
    \/ \E parsed \in BOOLEAN : ServerRecv(parsed)

\* The client, its commands, the connection and the server, under any
\* sequence of key events and any scheduling.
SpecSync == Init /\ [][NextSync]_vars

(***************************************************************************)
(* Handlers that run concurrently (handler.rs, core/document.rs)           *)
(***************************************************************************)

\* A handler suspended at an await. did_change, at parser.lock().await, holds
\* the RefMut of its text and of its parser; document_symbol, at
\* tree.lock().await, holds the Ref of its text and of its tree; began is
\* the tree stored when it started.
Suspended(op, uri, arg, began) ==
    [op |-> op, uri |-> uri, arg |-> arg, began |-> began]

\* A handler that asks for the entries of uri, to write or to read them,
\* finds a guard on them that excludes it.
MustWait(uri, write) ==
    \E i \in 1..Len(inflight) :
        /\ inflight[i].uri = uri
        /\ (write \/ inflight[i].op = "did_change")

\* The guards lock the shard of their entry: a handler may find the shard of
\* its entry locked by the guard of any other entry.
MayWait(write) ==
    \E i \in 1..Len(inflight) : write \/ inflight[i].op = "did_change"

\* handler::did_change up to parser.lock().await in Document::change, when
\* that await is pending: the text is replaced, the tree is not yet.
did_change_suspends(uri, content_changes) ==
    /\ alive
    /\ Len(inflight) < MaxInflight
    /\ ~MustWait(uri, TRUE)
    /\ get_mut_text(CurrentStore, uri).kind = "Ok"
    /\ content_changes # << >>
    /\ get_mut_parser(CurrentStore, uri).kind = "Ok"
    /\ document_texts' = MapInsert(document_texts, uri, content_changes[1].text)
    /\ inflight' = Append(inflight, Suspended("did_change", uri, content_changes,
                                              None))
    /\ UNCHANGED <<debug_assertions, client, document_parsers, document_trees,
                   alive, last>>

\* The rest of Document::change and of handler::did_change: the parse, the
\* replacement of the tree, the release of the guards.
did_change_resumes(i, parsed) ==
    /\ alive
    /\ inflight[i].op = "did_change"
    /\ LET uri == inflight[i].uri
           o == Document_change(CurrentStore, uri, document_texts[uri], parsed)
       IN  /\ SetStore(o.store)
           /\ last' = Call("did_change", uri,
                           [content_changes |-> inflight[i].arg, parsed |-> parsed],
                           IF o.res.kind = "Ok" THEN Ok(Unit) ELSE o.res)
           /\ alive' = unwrap(o.res)
    /\ inflight' = Take(inflight, i - 1) \o Drop(inflight, i)
    /\ UNCHANGED <<debug_assertions, client>>

\* handler::document_symbol up to tree.lock().await, when that await is
\* pending: the Ref of the text and the Ref of the tree are held.
document_symbol_suspends(uri) ==
    /\ alive
    /\ Len(inflight) < MaxInflight
    /\ ~MustWait(uri, FALSE)
    /\ get_text(CurrentStore, uri).kind = "Ok"
    /\ get_tree(CurrentStore, uri).kind = "Ok"
    /\ inflight' = Append(inflight, Suspended("document_symbol", uri, None,
                                              document_trees[uri]))
    /\ UNCHANGED <<debug_assertions, client, document_texts, document_parsers,
                   document_trees, alive, last>>

\* The rest of handler::document_symbol: the tree is cloned, the symbols are
\* computed from the text and the clone. The call records the tree stored
\* at its start.
document_symbol_resumes(i) ==
    /\ alive
    /\ inflight[i].op = "document_symbol"
    /\ LET o == handler_document_symbol(CurrentStore, inflight[i].uri)
       IN  /\ last' = Call("document_symbol", inflight[i].uri,
                           [began |-> inflight[i].began], o.res)
           /\ alive' = (o.res.kind # "Panic")
    /\ inflight' = Take(inflight, i - 1) \o Drop(inflight, i)
    /\ UNCHANGED <<debug_assertions, client, document_texts, document_parsers,
                   document_trees>>

\* handler::document_symbol when get_text or get_tree finds no entry: the
\* error is returned before anything is awaited.
document_symbol_fails(uri) ==
    /\ alive
    /\ ~MustWait(uri, FALSE)
    /\ handler_document_symbol(CurrentStore, uri).res.kind # "Ok"
    /\ last' = Call("document_symbol", uri, [began |-> None],
                    handler_document_symbol(CurrentStore, uri).res)
    /\ UNCHANGED <<debug_assertions, client, document_texts, document_parsers,
                   document_trees, alive, inflight>>

\* A handler asks for an entry whose shard is locked by a suspended handler:
\* DashMap waits for the lock on the thread that polls the handlers, which
\* therefore never resumes the one that holds it.
Server_blocks(write) ==
    /\ alive
    /\ MayWait(write)
    /\ alive' = FALSE
    /\ UNCHANGED <<debug_assertions, client, document_texts, document_parsers,
                   document_trees, inflight, last>>

NextConcurrent ==
    \/ /\ \E uri \in Uris, text \in OpenTexts, parsed \in BOOLEAN :
              ~MustWait(uri, TRUE) /\ Server_did_open(uri, text, parsed)
       /\ UNCHANGED clientVars
    \/ /\ \E uri \in Uris, changes \in ChangeLists, parsed \in BOOLEAN :
              ~MustWait(uri, TRUE) /\ Server_did_change(uri, changes, parsed)
       /\ UNCHANGED clientVars
    \/ /\ \E uri \in Uris : ~MustWait(uri, TRUE) /\ Server_did_close(uri)
       /\ UNCHANGED clientVars
    \/ /\ \E uri \in Uris, changes \in ChangeLists : did_change_suspends(uri, changes)
       /\ UNCHANGED clientVars
    \/ /\ \E i \in 1..Len(inflight), parsed \in BOOLEAN : did_change_resumes(i, parsed)
       /\ UNCHANGED clientVars
    \/ /\ \E uri \in Uris : document_symbol_suspends(uri)
       /\ UNCHANGED clientVars
    \/ /\ \E i \in 1..Len(inflight) : document_symbol_resumes(i)
       /\ UNCHANGED clientVars
    \/ /\ \E uri \in Uris : document_symbol_fails(uri)
       /\ UNCHANGED clientVars
    \/ /\ \E write \in BOOLEAN : Server_blocks(write)
       /\ UNCHANGED clientVars

\* The handlers of the server under any sequence of requests, each running
\* to its end or suspended at its await while others run.
SpecConcurrent == InitStore /\ [][NextConcurrent]_vars

(***************************************************************************)
(* The symbols of a document (handler::document_symbol)                    *)
(***************************************************************************)

\* The patterns of QUERY, in order: each captures the declaration node and,
\* inside it, the identifier that names what is declared.
DeclarationKinds ==
    <<"function_declaration", "lexical_declaration", "variable_declaration",
      "class_declaration">>

\* A node of the tree: its kind and the text it spans.
Node(kind, text) == [kind |-> kind, text |-> text]

\* One match of pattern p: the captures, the outer node first.
QueryMatch(p, declaration, name) ==
    [pattern_index |-> p,
     captures |-> <<[node |-> Node(DeclarationKinds[p], declaration)],
                    [node |-> Node("identifier", name)]>>]

\* The matches QUERY has in a document, in the order the cursor yields them.
Matches ==
    {QueryMatch(p, <<"d">> \o name, name) :
        p \in 1..Len(DeclarationKinds), name \in {<<"a">>, <<"b">>}}

MatchLists == UNION {[1..n -> Matches] : n \in 0..MaxMatches}

\* make_symbol: the name is the identifier's text, the location the
\* declaration's range.
make_symbol(uri, declaration, identifier, kind) ==
    [name |-> identifier.text, kind |-> kind,
     location |-> [uri |-> uri, range |-> declaration.text]]

\* A table that tells classes from variables.
match_symbols_class(uri, m) ==
    IF Len(m.captures) = 2 /\ m.captures[1].node.kind = "class_declaration"
    THEN <<make_symbol(uri, m.captures[1].node, m.captures[2].node, "CLASS")>>
    ELSE IF Len(m.captures) = 2 /\ m.captures[1].node.kind = "function_declaration"
    THEN <<make_symbol(uri, m.captures[1].node, m.captures[2].node, "FUNCTION")>>
    ELSE IF Len(m.captures) = 2
    THEN <<make_symbol(uri, m.captures[1].node, m.captures[2].node, "VARIABLE")>>
    ELSE << >>

\* The body of the loop over the matches: what one match adds to symbols.
match_symbols(uri, m) ==
    IF Len(m.captures) = 2
    THEN LET declaration == m.captures[1]
             identifier == m.captures[2]
         IN  CASE declaration.node.kind = "function_declaration" ->
                      <<make_symbol(uri, declaration.node, identifier.node, "FUNCTION")>>
               [] declaration.node.kind = "lexical_declaration" ->
                      <<make_symbol(uri, declaration.node, identifier.node, "VARIABLE")>>
               [] declaration.node.kind = "variable_declaration" ->
                      <<make_symbol(uri, declaration.node, identifier.node, "VARIABLE")>>
               [] declaration.node.kind = "class_declaration" ->
                      <<make_symbol(uri, declaration.node, identifier.node, "VARIABLE")>>
               [] OTHER -> << >>
    ELSE << >>

\* The loop: symbols grows by what each match adds, in the order of the matches.
RECURSIVE symbols_of(_, _)
symbols_of(uri, matches) ==
    IF matches = << >> THEN << >>
    ELSE match_symbols(uri, Head(matches)) \o symbols_of(uri, Tail(matches))

\* DocumentSymbolResponse::Flat(symbols)
Flat(symbols) == [shape |-> "Flat", symbols |-> symbols]

\* The query has run over the tree of a document: its matches are at hand.
InitSymbols ==
    /\ debug_assertions = TRUE
    /\ client = TRUE
    /\ document_texts = EmptyMap
    /\ document_parsers = EmptyMap
    /\ document_trees = EmptyMap
    /\ alive = TRUE
    /\ inflight = << >>
    /\ \E matches \in MatchLists :
           last = [op |-> "matches", uri |-> document_uri, arg |-> matches,
                   res |-> Ok(Unit), pre |-> Store(EmptyMap, EmptyMap, EmptyMap)]
    /\ InitApp /\ encoding = "Utf16" /\ trigger_characters = {}

\* The loop over the matches and the answer of document_symbol.
SymbolsCollected ==
    /\ last.op = "matches"
    /\ last' = [last EXCEPT !.op = "document_symbol",
                            !.res = Ok(Some(Flat(symbols_of(last.uri, last.arg))))]
    /\ UNCHANGED <<debug_assertions, client, document_texts, document_parsers,
                   document_trees, alive, inflight>>
    /\ UNCHANGED clientVars

NextSymbols == SymbolsCollected

\* The symbols of any list of matches of the query.
SpecSymbols == InitSymbols /\ [][NextSymbols]_vars

(***************************************************************************)
(* Calls of a CompletionMenuState                                          *)
(***************************************************************************)

\* The labels of the candidates.
MenuLabels == {<<"a">>, <<".">>, <<"a", "a">>}

MenuLists == UNION {[1..n -> MenuLabels] : n \in 0..MaxMenuItems}

\* A call has left o behind: last is the call with the state it found, and
\* a panic ends the program.
MenuCalled(op, arg, o) ==
    /\ app # "panicked"
    /\ menu' = o.state
    /\ app' = IF o.panic THEN "panicked" ELSE app
    /\ last' = [op |-> op, uri |-> None, arg |-> [list |-> arg, found |-> menu],
                res |-> IF o.panic THEN Panic ELSE Ok(Unit),
                pre |-> Store(EmptyMap, EmptyMap, EmptyMap)]
    /\ UNCHANGED <<debug_assertions, client, document_texts, document_parsers,
                   document_trees, alive, inflight>>
    /\ UNCHANGED <<encoding, trigger_characters, size, doc, text_area, text_document_sync,
                   document_version, show_completions, completions, keys, key_event>>
    /\ UNCHANGED <<syncVars, historyVars>>

NextMenu ==
    \/ \E list \in MenuLists : MenuCalled("set_completions", list, set_completions(menu, list))
    \/ MenuCalled("next", << >>, CompletionMenuState_next(menu))
    \/ MenuCalled("previous", << >>, CompletionMenuState_previous(menu))

\* A CompletionMenuState under any sequence of calls, from its default, in
\* either build.
InitMenu == Init /\ client /\ encoding = "Utf16" /\ trigger_characters = {}

SpecMenu == InitMenu /\ [][NextMenu]_vars

(***************************************************************************)
(* Properties of the Session store (SpecStore)                             *)
(***************************************************************************)

ServerOps == {"did_open", "did_change", "did_close", "document_symbol"}

\* C1: after any sequence of completed did_open, did_change and did_close
\* calls, the text map, the parser map and the tree map hold the same ids.
C1_StoreKeysAgree ==
    /\ DOMAIN document_texts = DOMAIN document_parsers
    /\ DOMAIN document_parsers = DOMAIN document_trees

\* A document was just closed while another one, changed before, stays open.
C1_Witness ==
    /\ last.op = "did_close"
    /\ last.res.kind = "Ok"
    /\ last.uri \in DOMAIN last.pre.texts
    /\ \E u \in DOMAIN document_texts : document_texts[u] = <<"b">>

\* C7: open of an id that already has an entry fails and overwrites nothing;
\* open of a new id inserts the text, the parser and the tree entry.
C7_OpenDuplicateFails ==
    (last.op = "did_open" /\ last.arg.parsed) =>
        IF last.uri \in DOMAIN last.pre.texts
        THEN last.res.kind # "Ok" /\ CurrentStore = last.pre
        ELSE /\ last.res.kind = "Ok"
             /\ last.uri \in DOMAIN document_texts
             /\ last.uri \in DOMAIN document_parsers
             /\ last.uri \in DOMAIN document_trees

\* C8: close of an id without an entry fails; close of an open id removes the
\* text, the parser and the tree entry.
C8_CloseAbsentFails ==
    last.op = "did_close" =>
        IF last.uri \notin DOMAIN last.pre.texts
        THEN last.res.kind # "Ok"
        ELSE /\ last.uri \notin DOMAIN document_texts
             /\ last.uri \notin DOMAIN document_parsers
             /\ last.uri \notin DOMAIN document_trees

GetterKind(g) ==
    CASE g \in {"get_text", "get_mut_text"} -> "Document"
      [] g = "get_mut_parser" -> "Parser"
      [] g \in {"get_tree", "get_mut_tree"} -> "Tree"

GetterMap(g) ==
    CASE g \in {"get_text", "get_mut_text"} -> document_texts
      [] g = "get_mut_parser" -> document_parsers
      [] g \in {"get_tree", "get_mut_tree"} -> document_trees

\* C9: an accessor called with an absent id fails with the resource-not-found
\* error of its kind (Document for the text accessors, Parser for the parser
\* accessor, Tree for the tree accessors) carrying that id; with a present id
\* it returns the entry; and it leaves the three maps as they were.
C9_GettersTyped ==
    last.op \in Getters =>
        /\ CurrentStore = last.pre
        /\ IF last.uri \in DOMAIN GetterMap(last.op)
           THEN /\ last.res.kind = "Ok"
                /\ last.res.value = GetterMap(last.op)[last.uri]
           ELSE /\ last.res.kind = "Err"
                /\ last.res.error = [type |-> "SessionResourceNotFound",
                                     kind |-> GetterKind(last.op),
                                     uri |-> last.uri]

\* The parser accessor was called with an absent id while another is open.
C9_Witness ==
    /\ last.op = "get_mut_parser"
    /\ last.res.kind = "Err"
    /\ DOMAIN document_parsers # {}

\* C10: a request that names a document that is not open is dropped: the
\* store is left as it was and the server goes on serving.
C10_NotFoundRecoverable ==
    (/\ last.op \in ServerOps
     /\ last.res.kind = "Err"
     /\ last.res.error.type = "SessionResourceNotFound") =>
        alive /\ CurrentStore = last.pre

\* C2: the versions of the notifications created for the document (the
\* did_open and every did_change, by the update loop of app.rs or by the task
\* of run_lsp_task) are strictly increasing in creation order, with no repeats.
C2_VersionsIncrease ==
    \A i, j \in 1..Len(emitted) :
        i < j => emitted[i].version < emitted[j].version

\* The did_open and two did_change notifications have been created.
C2_Witness ==
    /\ Len(emitted) >= 3
    /\ emitted[1].method = "did_open"
    /\ emitted[2].method = "did_change"
    /\ emitted[3].method = "did_change"

\* The did_change notifications the server end has been sent, in the order
\* they were sent: the handled ones, then the ones still on the wire.
SentChanges ==
    SelectSeq(received \o wire, LAMBDA m : m.method = "did_change")

\* C3: of any two did_change notifications of the document, the one with
\* the smaller version is sent first, however the commands are scheduled.
C3_SentInVersionOrder ==
    \A i, j \in 1..Len(SentChanges) :
        i < j => SentChanges[i].version < SentChanges[j].version

RECURSIVE DescriptorCount(_)
\* The number of change descriptors the notifications carry.
DescriptorCount(notifications) ==
    IF notifications = << >> THEN 0
    ELSE (IF Head(notifications).method = "did_change"
          THEN Len(Head(notifications).content_changes) ELSE 0)
         + DescriptorCount(Tail(notifications))

C5_ReplayIsLocalText ==
    app # "panicked" => NormalizeEol(reference) = RopeOf(doc.lines)

\* C6: when the server has handled the did_change the update loop created for
\* an edit, the text its Session holds for the document is the local text
\* after that edit (line terminators compared as written either way).
C6_ServerTextIsLocalText ==
    (/\ lsp_task = "none"
     /\ alive
     /\ received # << >>
     /\ received[Len(received)].method = "did_change")
    => NormalizeEol(document_texts[document_uri])
           = ropes[received[Len(received)].version + 1]

\* The completion requests among the commands of a task.
Requests(commands) ==
    SelectSeq(commands, LAMBDA c : c.method = "completion")

\* The text before the cursor of document d warrants a completion request:
\* the character before the cursor is a word character or a trigger
\* character, and it is a trigger character or ends a word of 2 or more.
Warranted(d) ==
    LET str == LineOrEmpty(d, d.cursor.y)
        p == d.char_ptr
    IN  /\ p > 0
        /\ p <= Len(str)
        /\ IsWordChar(str[p]) \/ str[p] \in trigger_characters
        /\ str[p] \in trigger_characters \/ Len(WordSuffix(Take(str, p))) >= 2

\* C11: the commands a key event spawns hold at most one completion request,
\* and hold one only if the text before the new cursor warrants it.
C11_RequestOnlyIfWarranted ==
    [][Len(tasks') = Len(tasks) + 1 =>
           /\ Len(Requests(tasks'[Len(tasks')])) <= 1
           /\ Len(Requests(tasks'[Len(tasks')])) = 1 => Warranted(doc')]_vars

\* The word that ends at the cursor of document d.
PrefixAtCursor(d) == WordSuffix(Take(LineOrEmpty(d, d.cursor.y), d.char_ptr))

\* The step is a key event that typed one character into the cursor's row.
Typed ==
    /\ keys' = keys + 1
    /\ doc'.cursor.y = doc.cursor.y
    /\ doc'.char_ptr = doc.char_ptr + 1
    /\ Len(LineOrEmpty(doc', doc'.cursor.y)) = Len(LineOrEmpty(doc, doc.cursor.y)) + 1

\* The step spawned commands with one completion request among them.
Issued ==
    /\ Len(tasks') = Len(tasks) + 1
    /\ Len(Requests(tasks'[Len(tasks')])) = 1

\* C12: typing a trigger character issues a completion request whatever the
\* word at the cursor; typing a character that is no trigger and leaves a
\* word of one character at the cursor issues none; typing so that the word
\* at the cursor has two characters issues one.
C12_CompletionTrigger ==
    [][Typed =>
           LET typed == LineOrEmpty(doc', doc'.cursor.y)[doc'.char_ptr]
               prefix == PrefixAtCursor(doc')
           IN  /\ typed \in trigger_characters => Issued
               /\ (typed \notin trigger_characters /\ Len(prefix) = 1) => ~Issued
               /\ Len(prefix) = 2 => Issued]_vars

\* No key event since has left the request current: completions are not
\* shown, or the cursor is no longer where the request was made.
Stale(request) ==
    \/ ~show_completions
    \/ request.position # get_lsp_position(doc, doc.cursor)

\* C13: the answer to a completion request that a later key event has
\* superseded does not change the stored completions.
C13_StaleAnswerDropped ==
    [][(Len(awaiting') < Len(awaiting) /\ Stale(answered'[1].request))
           => completions' = completions]_vars

FilterKey(item) ==
    IF IsSome(item.filter_text) THEN item.filter_text[1] ELSE item.label

\* The orders in which n candidates can be listed.
Orders(n) ==
    {p \in [1..n -> 1..n] : \A k, l \in 1..n : p[k] = p[l] => k = l}

\* C15: the completions stored for an answer of either shape are the labels
\* of exactly the candidates whose filter key starts with the word of the
\* request, listed in the order of their sort keys.
C15_FilteredAndSorted ==
    (answered # << >> /\ IsSome(answered[1].response)) =>
        LET kept == SelectSeq(answered[1].response[1].items,
                              LAMBDA i : starts_with(FilterKey(i),
                                                     answered[1].request.word))
        IN  \E p \in Orders(Len(kept)) :
                /\ completions = [k \in 1..Len(kept) |-> kept[p[k]].label]
                /\ \A k, l \in 1..Len(kept) :
                       k < l => ~OptionLess(kept[p[l]].sort_text,
                                            kept[p[k]].sort_text)

(***************************************************************************)
(* Properties of the change descriptors (SpecEdit)                         *)
(***************************************************************************)

\* The column the protocol gives the place before character i of str.
Column(str, i) ==
    CASE encoding = "Utf8" -> SumOver("utf8", str, i)
      [] encoding = "Utf16" -> SumOver("utf16", str, i)
      [] encoding = "Utf32" -> i

\* The descriptors of the notification the update loop of app.rs creates in
\* this step.
AppChanges ==
    IF /\ lsp_task = "none"
       /\ Len(emitted') > Len(emitted)
       /\ emitted'[Len(emitted')].method = "did_change"
    THEN emitted'[Len(emitted')].content_changes
    ELSE << >>

\* The descriptor the run loop of mod.rs hands to its task in this step, for
\* a server that takes changes by range.
RunChanges ==
    IF /\ lsp_task # "none"
       /\ text_document_sync = "INCREMENTAL"
       /\ Len(message_rx') > Len(message_rx)
       /\ message_rx'[Len(message_rx) + 1].msg = "Change"
    THEN <<message_rx'[Len(message_rx) + 1].event>>
    ELSE << >>

\* The edit of app.rs happens at character char_ptr of the cursor's row, the
\* edit of mod.rs at the cursor of the text area.
AppRow == loc(doc).y
AppLine == LineOrEmpty(doc, AppRow)
RunRow == text_area.cursor.row
RunCol == text_area.cursor.col
RunLine == text_area.lines[RunRow + 1]

\* change says that text went in before character i of row, which held old
\* and holds new after the edit.
IsInsertion(change, row, i, old, new) ==
    /\ new = Take(old, i) \o change.text \o Drop(old, i)
    /\ change.range.start = Position(row, Column(old, i))
    /\ change.range.end = change.range.start

\* C16: the descriptor of a character typed, or of a string inserted, at
\* column i of a row has start = end = the protocol position of column i on
\* that row, and the inserted character or string as its text.
C16_InsertDescriptor ==
    [][/\ \A k \in 1..Len(AppChanges) :
              AppChanges[k].text \notin {<< >>, <<CR, LF>>} =>
                  IsInsertion(AppChanges[k], AppRow, doc.char_ptr,
                              AppLine, doc'.lines[AppRow + 1])
       /\ \A k \in 1..Len(RunChanges) :
              RunChanges[k].text \notin {<< >>, <<CR, LF>>} =>
                  IsInsertion(RunChanges[k], RunRow, RunCol,
                              RunLine, text_area'.lines[RunRow + 1])]_vars

\* A string of several characters went in after the first character of a
\* row, and its descriptor waits for the task.
C16_Witness ==
    \E k \in 1..Len(message_rx) :
        /\ message_rx[k].msg = "Change"
        /\ text_document_sync = "INCREMENTAL"
        /\ Len(message_rx[k].event.text) > 1
        /\ message_rx[k].event.range.start.character > 0
        /\ message_rx[k].event.text \notin {<<CR, LF>>}

\* change says that character i of row, which held old and holds new after
\* the edit, went out: its range is one column long.
IsDeletion(change, row, i, old, new) ==
    /\ new = Take(old, i) \o Drop(old, i + 1)
    /\ change.range.start = Position(row, Column(old, i))
    /\ change.range.end = Position(row, Column(old, i) + 1)

\* change has no text and a range within one line.
DeletesInLine(change) ==
    change.text = << >> /\ change.range.start.line = change.range.end.line

\* C17: the descriptor of the deletion of the character at column i of a row
\* has the range [pos(i), pos(i) + 1) on that row, pos(i) being the protocol
\* position of the character in the text before the deletion, and no text.
C17_DeleteDescriptor ==
    [][/\ \A k \in 1..Len(AppChanges) :
              DeletesInLine(AppChanges[k]) =>
                  IsDeletion(AppChanges[k], AppRow, doc.char_ptr - 1,
                             AppLine, doc'.lines[AppRow + 1])
       /\ \A k \in 1..Len(RunChanges) :
              DeletesInLine(RunChanges[k]) =>
                  IsDeletion(RunChanges[k], RunRow, RunCol - 1,
                             RunLine, text_area'.lines[RunRow + 1])]_vars

\* The update loop has deleted the character of several code units that
\* the key before had typed.
C17_Witness ==
    /\ app = "running"
    /\ encoding # "Utf32"
    /\ Len(emitted) > 1
    /\ emitted[Len(emitted)].method = "did_change"
    /\ emitted[Len(emitted) - 1].method = "did_change"
    /\ DeletesInLine(emitted[Len(emitted)].content_changes[1])
    /\ emitted[Len(emitted) - 1].content_changes[1].text = <<"W">>

\* change says that row, which held old, was split before its character i:
\* its range runs from there to the start of the row below.
IsSplit(change, row, i, old) ==
    /\ change.range.start = Position(row, Column(old, i))
    /\ change.range.end = Position(row + 1, 0)

\* C18: the descriptor of a line split at column i of row r has the range
\* [pos(i) on row r, (r + 1, 0)), and its text is always "\r\n".
C18_SplitDescriptor ==
    [][/\ \A k \in 1..Len(AppChanges) :
              AppChanges[k].range.end.line > AppChanges[k].range.start.line
              /\ AppChanges[k].text # << >> =>
                  /\ AppChanges[k].text = <<CR, LF>>
                  /\ IsSplit(AppChanges[k], AppRow, doc.char_ptr, AppLine)
                  /\ (Len(AppChanges) = 1 /\ AppRow < len_lines(doc) =>
                          /\ doc'.lines[AppRow + 1] = Take(AppLine, doc.char_ptr)
                          /\ doc'.lines[AppRow + 2] = Drop(AppLine, doc.char_ptr))
       /\ \A k \in 1..Len(RunChanges) :
              RunChanges[k].range.end.line > RunChanges[k].range.start.line
              /\ RunChanges[k].text # << >> =>
                  /\ RunChanges[k].text = <<CR, LF>>
                  /\ IsSplit(RunChanges[k], RunRow, RunCol, RunLine)
                  /\ text_area'.lines[RunRow + 1] = Take(RunLine, RunCol)
                  /\ text_area'.lines[RunRow + 2] = Drop(RunLine, RunCol)]_vars

\* The update loop has split a row behind a character of two code units.
C18_Witness ==
    /\ app = "running"
    /\ encoding = "Utf16"
    /\ doc.lines = << <<"W">>, <<".">> >>
    /\ emitted[Len(emitted)].method = "did_change"
    /\ emitted[Len(emitted)].content_changes
           = <<Change(Range(Position(0, 2), Position(1, 0)), <<CR, LF>>)>>

\* change says that the row below row r, which held old, was appended to
\* it: its range runs from the end of old to the start of the row below.
IsMerge(change, r, old) ==
    /\ change.range.start = Position(r, Column(old, Len(old)))
    /\ change.range.end = Position(r + 1, 0)

\* change has no text and a range that ends on a later line.
DeletesLineEnd(change) ==
    change.text = << >> /\ change.range.end.line > change.range.start.line

\* C19: the descriptor of the merge of row r + 1 into row r has the range
\* [(r, end of row r), (r + 1, 0)), the end of row r being its protocol
\* position in the text before the merge, and no text.
C19_MergeDescriptor ==
    [][/\ \A k \in 1..Len(AppChanges) :
              DeletesLineEnd(AppChanges[k]) =>
                  IsMerge(AppChanges[k], AppRow - 1, LineOrEmpty(doc, AppRow - 1))
       /\ \A k \in 1..Len(RunChanges) :
              DeletesLineEnd(RunChanges[k]) =>
                  IsMerge(RunChanges[k], RunRow - 1, text_area.lines[RunRow])]_vars

\* C20: get_lsp_position of a character location (row, col) of the text
\* gives line = row and the column of col in the negotiated encoding: the
\* bytes in front of col for Utf8, the UTF-16 code units of the first col
\* characters for Utf16, col itself for Utf32; so under Utf16 one character
\* of two code units in front of col makes the column col + 1. Stated for
\* every character location of the text of app.rs and of mod.rs.
C20_ProtocolPosition ==
    /\ \A row \in 0..(len_lines(doc) - 1) :
           \A col \in 0..Len(doc.lines[row + 1]) :
               get_lsp_position(doc, Loc(col, row))
                   = Position(row, Column(doc.lines[row + 1], col))
    /\ lsp_task # "none" =>
           \A row \in 0..(Len(text_area.lines) - 1) :
               \A col \in 0..Len(text_area.lines[row + 1]) :
                   text_area_lsp_position(text_area, << >>, row, col)
                       = Some(Column(text_area.lines[row + 1], col))

(***************************************************************************)
(* Properties of the edge cases of editing (SpecEdit)                      *)
(***************************************************************************)

\* The update loop of app.rs handles a key event in this step.
AppKeyStep == lsp_task = "none" /\ app = "running" /\ keys' = keys + 1

\* C21: the row below the last line is a valid place for the cursor: a key
\* event handled with the cursor on it (a character, Enter, Backspace, an
\* arrow) ends without a panic, its positions translated.
C21_RowBelowLastIsValid ==
    [][AppKeyStep /\ loc(doc).y = len_lines(doc) => app' # "panicked"]_vars

\* C22: Backspace with the cursor at the start of the document (row 0,
\* column 0) is a no-op: the text, the cursor and the version counter stay
\* as they are and no change notification is created.
C22_BackspaceAtStartIsNoOp ==
    [][/\ (/\ AppKeyStep
           /\ key_event' = Key("Backspace", None)
           /\ loc(doc).y = 0 /\ doc.char_ptr = 0 /\ doc.cursor.x = 0) =>
              /\ doc' = doc
              /\ document_version' = document_version
              /\ emitted' = emitted
              /\ app' = "running"
       /\ (/\ lsp_task # "none" /\ app = "running" /\ keys' = keys + 1
           /\ key_event' = Key("Backspace", None)
           /\ text_area.cursor = [row |-> 0, col |-> 0]) =>
              /\ text_area' = text_area
              /\ message_rx' = message_rx
              /\ app' = "running"]_vars

\* Backspace was the last key, the cursor is at the start of a document
\* that holds text, and the one change made so far is the one that typed it.
C22_Witness ==
    /\ app = "running"
    /\ lsp_task = "none"
    /\ key_event = Key("Backspace", None)
    /\ doc = [lines |-> << <<"a">> >>, cursor |-> [x |-> 0, y |-> 0], char_ptr |-> 0]
    /\ document_version = 2

(***************************************************************************)
(* Properties of the handlers of the server (SpecStore)                    *)
(***************************************************************************)

\* C23: when the parse of the text a did_open carries gives no tree, the
\* document is in the store all the same, and a document_symbol request for
\* it is answered with a result and not with an error.
C23_UnparsedOpenIsStored ==
    (last.op = "did_open" /\ ~last.arg.parsed /\ alive) =>
        /\ last.uri \in DOMAIN document_texts
        /\ handler_document_symbol(CurrentStore, last.uri).res.kind = "Ok"

(***************************************************************************)
(* Properties of failing requests (SpecSync)                               *)
(***************************************************************************)

\* C24: a completion request that is answered with an error comes to no
\* results: the editing loop goes on running, and no panic reaches it.
C24_CompletionErrorIsNoResult ==
    [][/\ lsp_task' # "panicked"
       /\ (lsp_task = "panicked" /\ app = "running" => app' # "panicked")]_vars

(***************************************************************************)
(* Properties of the Session without a client (SpecStore)                  *)
(***************************************************************************)

\* C25: without a client, Session::client fails at once with the error
\* ClientNotInitialized, which is not the error of an absent resource; a
\* did_close that removed its document returns that error as its result.
C25_NoClientFailsFast ==
    /\ ~client =>
           /\ Session_client = Err(ClientNotInitialized)
           /\ \A kind \in {"Document", "Parser", "Tree"}, uri \in Uris \cup {None} :
                  Session_client.error # SessionResourceNotFound(kind, uri)
    /\ (/\ last.op = "did_close"
        /\ ~client
        /\ remove_document(last.pre, last.uri).res.kind = "Ok") =>
           /\ last.res = Err(ClientNotInitialized)
           /\ last.res.error.type # "SessionResourceNotFound"

\* A did_close of an open document was answered without a client.
C25_Witness ==
    /\ last.op = "did_close"
    /\ ~client
    /\ last.uri \in DOMAIN last.pre.texts
    /\ last.res.kind = "Err"
    /\ last.res.error.type = "ClientNotInitialized"

(***************************************************************************)
(* Properties of the events that are not keys (SpecEdit)                   *)
(***************************************************************************)

\* C27: a resize stores the width and the height, in the App and in the
\* document, and nothing else: the text, the cursor, the version counter and
\* the completion state stay as they are, and neither a change notification
\* nor a completion request is created.
C27_ResizeKeepsContent ==
    [][size' # size =>
           /\ size'.doc = [w |-> size'.width, h |-> size'.height]
           /\ doc' = doc
           /\ document_version' = document_version
           /\ show_completions' = show_completions
           /\ completions' = completions
           /\ emitted' = emitted
           /\ tasks' = tasks
           /\ app' = app]_vars

\* The terminal was resized after a trigger character was typed: the
\* completions are shown, the cursor is behind the character, the command of
\* the key event is still waiting.
C27_Witness ==
    /\ size = Sized(120, 40)
    /\ app = "running"
    /\ show_completions
    /\ doc.char_ptr > 0
    /\ document_version = 2
    /\ Len(tasks) = 2

(***************************************************************************)
(* Properties of the negotiated capabilities (SpecSession)                 *)
(***************************************************************************)

\* The positions at which the edit of this step can start: the character at
\* the cursor, the character in front of it, the end of the row above.
ChangeStarts ==
    {Position(AppRow, Column(AppLine, doc.char_ptr))}
    \cup (IF doc.char_ptr > 0
          THEN {Position(AppRow, Column(AppLine, doc.char_ptr - 1))} ELSE {})
    \cup (IF AppRow > 0
          THEN {Position(AppRow - 1, Column(LineOrEmpty(doc, AppRow - 1),
                                            Len(LineOrEmpty(doc, AppRow - 1))))}
          ELSE {})

\* The completion requests among the commands this step has spawned.
AppRequests ==
    IF lsp_task = "none" /\ keys' = keys + 1 /\ Len(tasks') > Len(tasks)
    THEN SelectSeq(tasks'[Len(tasks')], LAMBDA c : c.method = "completion")
    ELSE << >>

\* C26: the encoding and the trigger characters taken from the server's
\* initialize result stay as they are under every key event, resize and
\* completion answer, and the positions created (the start of each change
\* descriptor, the place of each completion request) are columns in that
\* encoding.
C26_EncodingIsFixed ==
    [][/\ encoding' = encoding
       /\ trigger_characters' = trigger_characters
       /\ \A k \in 1..Len(AppChanges) :
              AppChanges[k].range.start \in ChangeStarts
       /\ \A k \in 1..Len(AppRequests) :
              AppRequests[k].position
                  = Position(doc'.cursor.y,
                             Column(LineOrEmpty(doc', doc'.cursor.y), doc'.cursor.x))]_vars

\* Under the 8-bit encoding, after a resize, a row was split behind a
\* character of four bytes: the descriptor starts at column 4.
C26_Witness ==
    /\ app = "running"
    /\ encoding = "Utf8"
    /\ size = Sized(120, 40)
    /\ doc.lines = << <<"W">>, <<".">> >>
    /\ emitted[Len(emitted)].method = "did_change"
    /\ emitted[Len(emitted)].content_changes[1].range.start = Position(0, 4)

(***************************************************************************)
(* Properties of the symbols (SpecSymbols)                                 *)
(***************************************************************************)

\* The symbols the loop has collected for the matches in last.arg.
Collected == last.res.value[1].symbols

\* C28: each match of the query, a declaration paired with its identifier,
\* yields exactly one symbol, named by the identifier; its kind is FUNCTION
\* for a function declaration and VARIABLE for a class, lexical or variable
\* declaration; the symbols are one flat sequence in the order of the matches.
C28_SymbolKindTable ==
    last.op = "document_symbol" =>
        /\ last.res.kind = "Ok"
        /\ IsSome(last.res.value)
        /\ last.res.value[1].shape = "Flat"
        /\ Len(Collected) = Len(last.arg)
        /\ \A k \in 1..Len(last.arg) :
               /\ Collected[k].name = last.arg[k].captures[2].node.text
               /\ Collected[k].location.range = last.arg[k].captures[1].node.text
               /\ Collected[k].kind =
                      IF last.arg[k].captures[1].node.kind = "function_declaration"
                      THEN "FUNCTION" ELSE "VARIABLE"

\* A class and a function, in this order, have given a variable and a function.
C28_Witness ==
    /\ last.op = "document_symbol"
    /\ Len(last.arg) = 2
    /\ last.arg[1].captures[1].node.kind = "class_declaration"
    /\ last.arg[2].captures[1].node.kind = "function_declaration"
    /\ Collected[1].kind = "VARIABLE"
    /\ Collected[2].kind = "FUNCTION"

(***************************************************************************)
(* Properties of the text and its tree (SpecStore)                         *)
(***************************************************************************)

\* C30: whenever document_symbol reads the text and the tree of an open
\* document, the tree is the parse of exactly that text, also after a
\* did_change whose reparse gave no tree.
C30_TreeIsParseOfText ==
    (last.op = "document_symbol" /\ last.res.kind = "Ok") =>
        last.res.value.tree = TreeOf(last.res.value.text)

(***************************************************************************)
(* Properties of concurrent handlers (SpecConcurrent)                      *)
(***************************************************************************)

C37_CloseRemovesBeforeClient ==
    (/\ last.op = "did_close"
     /\ last.res.kind = "Err"
     /\ last.res.error.type = "ClientNotInitialized") =>
        /\ last.uri \notin DOMAIN document_texts
        /\ last.uri \notin DOMAIN document_parsers
        /\ last.uri \notin DOMAIN document_trees
        /\ (last.uri \in DOMAIN last.pre.texts => CurrentStore # last.pre)

\* The close of one of two open documents has failed for want of a client:
\* its entries are gone, the other document's are not.
C37_Witness ==
    /\ last.op = "did_close"
    /\ last.res = Err(ClientNotInitialized)
    /\ DOMAIN last.pre.texts = Uris
    /\ DOMAIN document_texts = Uris \ {last.uri}
    /\ DOMAIN document_trees = Uris \ {last.uri}

\* C36: did_change needs at least one content change; it replaces the whole
\* stored text by the text of the first one, whatever its range and whatever
\* follows it, and then stores the tree parsed from that text (when the
\* parse gives none, the stored tree stays); no other document is touched.
C36_ChangeReplacesWholeText ==
    (last.op = "did_change" /\ last.uri \in DOMAIN last.pre.texts) =>
        IF last.arg.content_changes = << >>
        THEN last.res = Panic /\ CurrentStore = last.pre
        ELSE /\ document_texts
                    = MapInsert(last.pre.texts, last.uri, last.arg.content_changes[1].text)
             /\ document_parsers = last.pre.parsers
             /\ (last.res.kind = "Ok" /\ last.arg.parsed) =>
                    document_trees
                        = MapInsert(last.pre.trees, last.uri,
                                    TreeOf(last.arg.content_changes[1].text))
             /\ ~last.arg.parsed => document_trees = last.pre.trees

\* A notification of two content changes, the first with a range, has been
\* handled for a document with another text: the text is now the first
\* change's, and so is the tree.
C36_Witness ==
    /\ last.op = "did_change"
    /\ last.res.kind = "Ok"
    /\ Len(last.arg.content_changes) = 2
    /\ last.arg.parsed
    /\ last.pre.texts[last.uri] = <<"b">>
    /\ document_texts[last.uri] = <<"a">>
    /\ document_trees[last.uri] = TreeOf(<<"a">>)

(***************************************************************************)
(* Properties of the completion menu (SpecMenu)                            *)
(***************************************************************************)

\* C39: after any sequence of set_completions, next and previous from the
\* default state, the selection is None exactly when there are no
\* completions and otherwise an index below their number; next from the
\* last index gives 0, previous from 0 gives the last index, and no
\* subtraction underflows.
C39_MenuSelectionInvariant ==
    /\ app # "panicked"
    /\ last.res # Panic
    /\ (menu.list_state.selected = Nothing) <=> (menu.completions = << >>)
    /\ IsSome(menu.list_state.selected) =>
           menu.list_state.selected[1] \in 0..(Len(menu.completions) - 1)
    /\ (last.op = "next" /\ IsSome(last.arg.found.list_state.selected)) =>
           menu.list_state.selected
               = Some((last.arg.found.list_state.selected[1] + 1)
                          % Len(menu.completions))
    /\ (last.op = "previous" /\ IsSome(last.arg.found.list_state.selected)) =>
           menu.list_state.selected
               = Some((last.arg.found.list_state.selected[1] + Len(menu.completions) - 1)
                          % Len(menu.completions))

\* previous, called with the first of three candidates selected, has
\* selected the last.
C39_Witness ==
    /\ last.op = "previous"
    /\ Len(menu.completions) = 3
    /\ last.arg.found.list_state.selected = Some(0)
    /\ menu.list_state.selected = Some(2)

(***************************************************************************)
(* Properties of the commands (SpecCompletion, SpecSync)                   *)
(***************************************************************************)

\* The message with which a command of the update loop ends in this step:
\* the did_open or did_change it has just sent, or the completion request
\* that has just been answered.
CommandEnded ==
    IF /\ lsp_task = "none"
       /\ Len(wire') > Len(wire)
       /\ wire'[Len(wire')].method \in {"did_open", "did_change"}
    THEN <<[sent |-> wire'[Len(wire')], response |-> Nothing]>>
    ELSE IF Len(awaiting') < Len(awaiting)
    THEN <<[sent |-> answered'[1].request, response |-> answered'[1].response]>>
    ELSE << >>

\* C31: every command the update loop has started for a network operation
\* (the open, a change notification, a completion request) ends with one
\* result message for the update loop.
C31_CommandReturnsMessage ==
    [][\A k \in 1..Len(CommandEnded) :
           IsSome(command_result(CommandEnded[k].sent, CommandEnded[k].response))]_vars

\* The messages sent to the server so far, in the order they were sent.
Sent == received \o wire

\* C32: the did_open of the document is sent before any did_change and any
\* completion request for it, under every scheduling; it carries version 0
\* and the first did_change carries version 1.
C32_OpenSentFirst ==
    /\ \A i \in 1..Len(Sent) :
           Sent[i].method \in {"did_change", "completion"} =>
               \E j \in 1..(i - 1) : Sent[j].method = "did_open"
    /\ \A i \in 1..Len(emitted) :
           /\ emitted[i].method = "did_open" => emitted[i].version = 0
           /\ (emitted[i].method = "did_change"
               /\ \A j \in 1..(i - 1) : emitted[j].method # "did_change") =>
                  emitted[i].version = 1

(***************************************************************************)
(* Properties of the commands of one key event (SpecTab, SpecEdit)         *)
(***************************************************************************)

\* The commands the key event of this step has returned.
AppCommands ==
    IF lsp_task = "none" /\ keys' = keys + 1 /\ Len(tasks') > Len(tasks)
    THEN tasks'[Len(tasks')]
    ELSE << >>

\* C33: when a key event returns a change notification and a completion
\* request, the change comes first in the sequence of commands, and the
\* place of the request is the protocol position of the cursor after the
\* edit: its row, and the column of its character index on that row.
C33_ChangeBeforeCompletion ==
    [][(/\ Len(AppCommands) = 2
        /\ \E k \in 1..2 : AppCommands[k].method = "did_change"
        /\ \E k \in 1..2 : AppCommands[k].method = "completion") =>
           /\ AppCommands[1].method = "did_change"
           /\ AppCommands[2].method = "completion"
           /\ AppCommands[2].position
                  = Position(loc(doc').y,
                             Column(LineOrEmpty(doc', loc(doc').y), doc'.char_ptr))]_vars

(***************************************************************************)
(* Properties of the frame of a key event (SpecEdit)                       *)
(***************************************************************************)

\* The keys that move the cursor, and the key the match does not name.
CursorKeys == {Key(k, None) : k \in {"Up", "Down", "Left", "Right", "Other"}}

\* This step emits one change notification with at least one descriptor.
ChangeEmitted ==
    /\ Len(emitted') = Len(emitted) + 1
    /\ emitted'[Len(emitted')].method = "did_change"
    /\ emitted'[Len(emitted')].content_changes # << >>

\* C34: a key event of an arrow key or of a key the match does not name
\* leaves the text of the document and the version counter as they were and
\* emits no notification; the version counter changes only in init, which
\* emits did_open, and in a key event whose edit gave at least one change
\* descriptor; unless that key event panics, it emits the change notification.
C34_CursorKeysChangeNothing ==
    [][/\ (AppKeyStep /\ key_event' \in CursorKeys) =>
              /\ doc'.lines = doc.lines
              /\ document_version' = document_version
              /\ emitted' = emitted
       /\ (lsp_task = "none" /\ document_version' # document_version) =>
              \/ app = "new" /\ emitted' = Append(emitted, DidOpen(document_version))
              \/ /\ AppKeyStep
                 /\ key_event' \notin CursorKeys
                 /\ KeyEdit(doc, key_event').changes # << >>
                 /\ app' = "running" => ChangeEmitted]_vars

\* An arrow key was handled in a document with text, after init and one edit.
C34_Witness ==
    /\ app = "running"
    /\ lsp_task = "none"
    /\ keys > 1
    /\ key_event \in CursorKeys
    /\ key_event.code = "Left"
    /\ doc.lines # << >>
    /\ doc.char_ptr = 0
    /\ document_version = 2
    /\ Len(emitted) = 2

\* The events a key event has executed on the document: InsertLine and
\* SplitDown add a line, Insert adds a character, SpliceUp takes a line away
\* and Delete a character, and one key event either adds or takes away.
Mutations ==
    IF Len(RopeOf(doc'.lines)) >= Len(RopeOf(doc.lines))
    THEN Len(RopeOf(doc'.lines)) - Len(RopeOf(doc.lines))
    ELSE Len(RopeOf(doc.lines)) - Len(RopeOf(doc'.lines))

\* The change descriptors of the notification this step emits.
Reported ==
    IF Len(emitted') > Len(emitted)
    THEN Len(emitted'[Len(emitted')].content_changes)
    ELSE 0

\* Backspace takes the branch that appends the row to the one above.
BackspaceMerges ==
    /\ key_event'.code = "Backspace"
    /\ doc.char_ptr = 0
    /\ loc(doc).y # 0
    /\ ~out_of_range(doc, 0, loc(doc).y)

\* C35: a key event that is handled to its end reports every event it
\* executed on the document, the blank line of new_row included, by one
\* change descriptor of the notification it emits, and emits at most one
\* notification; where backspace appends a row to the one above, its call of
\* new_row leaves the document as it was and returns no descriptor.
C35_NoSilentMutation ==
    [][(AppKeyStep /\ app' = "running") =>
           /\ Mutations = Reported
           /\ Len(emitted') <= Len(emitted) + 1
           /\ doc'.lines # doc.lines => ChangeEmitted
           /\ BackspaceMerges =>
                  /\ new_row(doc) = Edited(doc, Nothing, FALSE)
                  /\ Len(doc'.lines) = Len(doc.lines) - 1]_vars

\* A letter typed on the empty row was reported with the blank line of
\* new_row, and a backspace has then appended the second row to the first.
C35_Witness ==
    /\ app = "running"
    /\ lsp_task = "none"
    /\ keys = 3
    /\ key_event.code = "Backspace"
    /\ Len(doc.lines) = 1
    /\ Len(emitted) = 4
    /\ Len(emitted[2].content_changes) = 2
    /\ emitted[2].content_changes[1].text = <<CR, LF>>
    /\ emitted[4].content_changes[1].text = << >>
    /\ emitted[4].content_changes[1].range.end.character = 0
    /\ emitted[4].content_changes[1].range.end.line
           = emitted[4].content_changes[1].range.start.line + 1

(***************************************************************************)
(* Properties of the guards of the store (SpecConcurrent)                  *)
(***************************************************************************)

\* This step leaves the thread that polls the handlers waiting for a shard
\* that a suspended handler has locked: no handler has ended, none has
\* started, and none runs again.
ServerBlocked ==
    /\ alive
    /\ ~alive'
    /\ inflight # << >>
    /\ inflight' = inflight
    /\ last' = last

\* C38: under every interleaving of did_open, did_change, did_close and
\* document_symbol, on the same or on different documents, no step leaves
\* every pending handler blocked: a handler that is suspended is resumed,
\* and a handler that asks for an entry gets it.
C38_NoDeadlock == [][~ServerBlocked]_vars

====
